---- MODULE Spec2Model ----
(***************************************************************************)
(* A model of mcp-debugger's session manager (src/src/session/             *)
(* session-manager.ts) and DAP client (src/src/dap/dap-client.ts) for one  *)
(* debug session.  Every async function is a process whose position is a   *)
(* pc variable; every await is a point where the event loop may run other  *)
(* handlers.  The debug adapter is the environment: it answers requests    *)
(* and sends events in any order.                                          *)
(***************************************************************************)
EXTENDS Integers, Sequences, FiniteSets, TLC

\* ------------------------------------------------------------------ bounds
\* stopped events the adapter sends in one run
MaxStops == 2
\* stopped events in a run of the tracepoint engine
MaxHits == 5
\* session-manager.ts MAX_TRACES_IN_MEMORY (10000), scaled down
MAX_TRACES_IN_MEMORY == 6
\* step/continue/pause calls the caller makes in one run
MaxOps == 1
\* cleanup timers armed at one time
MaxGrace == 2
\* setBreakpoint/removeBreakpoint calls in one run
MaxBpCalls == 2

\* reverse requests other than startDebugging the adapter sends in one run
MaxReverse == 2
\* characters in the body of an encoded message
MaxBody == 2
\* messages in one stream
MaxMessages == 2

\* ------------------------------------------------------- program constants
None == "none"
\* a number that is null or undefined
NoNum == 0
\* an undefined dumpCount (0 is a count)
Undef == -1

States == {"created", "initializing", "ready", "running", "paused", "terminated", "error"}

VARIABLES
  \* SessionManager / SessionData
  inTable,            \* this.sessions.has(sessionId)
  state,              \* session.info.state
  breakpoints,        \* session.breakpoints, the Map's entries in insertion order
  dumpBreakpoints,    \* session.dumpBreakpoints: the set of registered <<file, line>> keys
  collectedTraces,    \* session.collectedTraces
  lastStopContext,    \* [set, stackFrame, variables]
  currentFrameId,
  \* DapClient
  connectionMode,     \* "stdio" | "tcp"
  isConnected,
  sequenceNumber,
  pendingRequests,    \* seq -> [command, owner]; owner names the closure that is settled
  capabilities,       \* the body of the initialize response; known = FALSE is null
  pendingLaunchSeq,   \* a seq, or 0 for null
  pendingLaunchResolve, \* TRUE when waitForLaunch has stored its resolve
  \* the promise each async function is suspended on: [st, body]
  awaits,
  \* startDebugging
  startPc,
  startResult,
  initListener,       \* the once('initialized') listener of waitForInitialized
  initTimer,          \* its 10 s timer: "none" | "armed" | "cleared" | "fired"
  wflTimer,           \* waitForLaunch's timer: "none" | "armed" | "fired"
  replayIdx,          \* position of the for-loop over session.breakpoints
  graceTimers,        \* armed 5 s cleanup timers of the terminated/adapterExit handlers
  emitted,            \* notifications the session manager has emitted
  handlers,           \* the async stopped handler of each stopped event: [pc, frame, st, body]
  autoPending,        \* setImmediate callbacks of the tracepoint auto-continue not yet run
  opPc,               \* the step/continue/pause call in progress
  opKind,
  opResult,
  opCalls,
  pauseListener,      \* waitForPause's listener on the manager's stopped notification
  pauseTimer,         \* "none" | "armed" (timeout) | "delay" (the 50 ms after stopped)
  bpPc,               \* the setBreakpoint/removeBreakpoint call in progress
  bpLog,              \* history: the requests of these calls, [kind, req, state]
  bpResult,
  bpCalls,
  ctxAtCall,          \* history: [ctx, state], lastStopContext and state when the call was made
  debuggee,           \* the adapter's debuggee: [running, stop, line]
  termPc,             \* terminateSession: "idle" | "disconnect" | "done"
  termResult,
  \* the adapter process and what was written to it
  procAlive,
  socketOpen,         \* tcp mode: the primary socket is open
  sent,               \* requests written to the adapter, in order
  holdLaunch,         \* the adapter answers launch only after configurationDone
  writable,           \* process.stdin.writable (stdio) / socket.writable (tcp)
  killed,             \* process.kill() was called
  \* the child session of a multi-session adapter
  activeChildSession, \* this.activeChildSession !== null
  childPc,            \* handleStartDebugging / createChildSession / initializeChildSession
  childSeq,           \* the child session's sequenceNumber
  childPending,       \* the child session's pendingRequests
  childSent,          \* requests written to the child connection, in order
  \* DapMessageParser and the stream it reads
  stream,             \* the bytes the adapter writes in this run
  readPos,            \* how many of them have arrived in data events
  buffer,             \* this.buffer
  received,           \* the messages returned by the parser, in order
  lastParse,          \* the last tryParse: "idle" | "null" | "message" | "throw"
  written,            \* history: the messages the adapter encoded into the stream
  reverseRequests,    \* history: the reverse requests received, [seq, command, conn]
  \* history
  fault,              \* the adapter failed, rejected, timed out or answered other than asked
  earlyInit,          \* initialized was delivered before the launch request
  queued,             \* session.breakpoints when startDebugging was called
  exitInTable         \* an adapterExit was emitted while the session was in the table

vars == <<inTable, state, breakpoints, dumpBreakpoints, collectedTraces, lastStopContext,
          currentFrameId, handlers, autoPending, opPc, opKind, opResult, opCalls,
          pauseListener, pauseTimer, ctxAtCall, bpPc, bpLog, bpResult, bpCalls, debuggee, connectionMode, isConnected, sequenceNumber,
          pendingRequests, capabilities, pendingLaunchSeq, pendingLaunchResolve,
          awaits, startPc, startResult, initListener, initTimer, wflTimer,
          replayIdx, graceTimers, emitted, termPc, termResult, procAlive, socketOpen, sent, holdLaunch,
          fault, earlyInit, queued, exitInTable, writable, killed, activeChildSession, childPc,
          childSeq, childPending, childSent, stream, readPos, buffer, received, lastParse,
          written, reverseRequests>>

sessVars == <<inTable, state>>
noteVars == <<graceTimers, emitted, termPc, termResult>>
termVars == <<termPc, termResult>>
procVars == <<procAlive, socketOpen, writable, killed>>
childVars == <<activeChildSession, childPc>>
childReqVars == <<childSeq, childPending, childSent>>
bpVars == <<breakpoints, dumpBreakpoints, collectedTraces>>
ctxVars == <<lastStopContext, currentFrameId>>
stepVars == <<opPc, opKind, opResult, opCalls, ctxAtCall>>
callVars == <<bpPc, bpLog, bpResult, bpCalls>>
opVars == <<stepVars, callVars>>
pauseVars == <<pauseListener, pauseTimer>>
stopVars == <<handlers, autoPending, debuggee>>
launchVars == <<pendingLaunchSeq, pendingLaunchResolve>>
reqVars == <<sequenceNumber, pendingRequests, sent, childReqVars>>
startVars == <<startPc, startResult, initListener, initTimer, wflTimer, replayIdx>>
parserVars == <<stream, readPos, buffer, received, lastParse, written>>
envVars == <<connectionMode, holdLaunch, parserVars, reverseRequests>>
histVars == <<fault, earlyInit, queued, exitInTable>>

\* client methods called concurrently by the callers of the correlation scenario
Callers == {"threads", "evaluate", "pause"}

\* the client methods behind a capability of the adapter
CapCallers == {"setFunctionBreakpoints", "setExceptionBreakpoints", "terminate"}

Owners == {"start", "term", "op", "bp", "child"} \cup Callers \cup CapCallers
NoAwait == [st |-> "none", body |-> <<>>]
Pending == [st |-> "pending", body |-> <<>>]
Resolved(b) == [st |-> "resolved", body |-> b]
Rejected == [st |-> "rejected", body |-> <<>>]
\* the promise sendRequest returns: rejected at once when sendRaw throws
Asked == IF writable THEN Pending ELSE Rejected
NoFrame == [id |-> 0, file |-> None, line |-> 0]
NoContext == [set |-> FALSE, stackFrame |-> 0, variables |-> 0, file |-> None, line |-> 0]

NoResult == [success |-> FALSE, state |-> None, stoppedAt |-> 0, variables |-> 0]

NoCapabilities ==
  [known |-> FALSE, supportsConfigurationDoneRequest |-> FALSE,
   supportsFunctionBreakpoints |-> FALSE, supportsTerminateRequest |-> FALSE,
   exceptionBreakpointFilters |-> FALSE]


\* ------------------------------------------------------------------ helpers
\* updateState: only a session still in the table changes state
UpdateState(cur, new) == IF inTable THEN new ELSE cur

\* sendRequest's guard: !this.isConnected || !this.process?.stdin throws
CanSend == isConnected

Without(f, k) == [x \in (DOMAIN f) \ {k} |-> f[x]]

\* sendRequest: allocate seq, register the pending record, write the request;
\* sendRaw throws when the stream is not writable, after the record was stored
SendRequest(command, arg, owner, n) ==
  /\ pendingRequests' =
       (sequenceNumber :> [command |-> command, owner |-> owner, n |-> n]) @@ pendingRequests
  /\ sequenceNumber' = sequenceNumber + 1
  /\ sent' = IF writable
               THEN Append(sent, [seq |-> sequenceNumber, command |-> command, arg |-> arg])
               ELSE sent
  /\ UNCHANGED childReqVars

\* sendRequestToChild: allocate the child's seq, write the request to the child
\* connection, register it in the child's pending table (waitForChildResponse)
SendRequestToChild(command, arg, owner, n) ==
  /\ childPending' = (childSeq :> [command |-> "unknown", owner |-> owner, n |-> n]) @@ childPending
  /\ childSeq' = childSeq + 1
  /\ childSent' = Append(childSent, [seq |-> childSeq, command |-> command, arg |-> arg])
  /\ UNCHANGED <<sequenceNumber, pendingRequests, sent>>

\* variant: the thread- and frame-scoped methods always use the primary connection
RoutedToPrimary(command, arg, owner, n) == SendRequest(command, arg, owner, n)

\* threads, stackTrace, scopes, variables, evaluate, continue, next, stepIn,
\* stepOut, pause: this.activeChildSession ? sendRequestToChild : sendRequest
Routed(command, arg, owner, n) ==
  IF activeChildSession
    THEN SendRequestToChild(command, arg, owner, n)
    ELSE SendRequest(command, arg, owner, n)

\* neither sendRequestToChild nor sendRequest throws before its first await
CanRoute == activeChildSession \/ CanSend

\* the promise a routed method awaits
RoutedAsked == IF activeChildSession THEN Pending ELSE Asked

\* variant: the request body without the hitCondition
BpRequestsNoHitCondition(bps) ==
  [i \in 1..Len(bps) |-> [line |-> bps[i].line, condition |-> bps[i].condition,
                           hitCondition |-> None, logMessage |-> bps[i].logMessage]]

\* setBreakpointsInternal's request body: line, condition, hitCondition, logMessage
BpRequests(bps) ==
  [i \in 1..Len(bps) |-> [line |-> bps[i].line, condition |-> bps[i].condition,
                           hitCondition |-> bps[i].hitCondition,
                           logMessage |-> bps[i].logMessage]]

\* convertBreakpoint: the stored record built from the adapter's reply
convertBreakpoint(bp, file, requestedLine) ==
  [id |-> bp.id, file |-> file,
   line |-> IF bp.line = NoNum THEN requestedLine ELSE bp.line,
   verified |-> bp.verified,
   condition |-> None, hitCondition |-> None, logMessage |-> None,
   trace |-> FALSE, dumpFile |-> None, maxDumps |-> NoNum, dumpCount |-> Undef]

\* DapClient.setBreakpoints: map the reply through convertBreakpoint
SetBreakpointsResult(reply, file, requests) ==
  [i \in 1..Len(reply) |->
     convertBreakpoint(reply[i], file,
                       IF i <= Len(requests) THEN requests[i].line ELSE 0)]

\* ------------------------------------------------------------ startDebugging
\* variant: a catch block that returns the failure without updateState(ERROR)
StartCatchKeepsState(cur) ==
  /\ state' = cur
  /\ startResult' = [success |-> FALSE, state |-> cur]
  /\ startPc' = "done"
  /\ awaits' = [awaits EXCEPT !["start"] = NoAwait]

\* the catch block of startDebugging
StartCatch(cur) ==
  /\ state' = UpdateState(cur, "error")
  /\ startResult' = [success |-> FALSE, state |-> UpdateState(cur, "error")]
  /\ startPc' = "done"
  /\ awaits' = [awaits EXCEPT !["start"] = NoAwait]

\* waitForLaunch(2000) as called at the end of startDebugging
WaitForLaunch ==
  /\ startPc' = "waitLaunch"
  /\ IF pendingLaunchSeq = NoNum
       THEN /\ awaits' = [awaits EXCEPT !["start"] = Resolved(<<>>)]
            /\ UNCHANGED <<pendingLaunchResolve, wflTimer>>
       ELSE /\ awaits' = [awaits EXCEPT !["start"] = Pending]
            /\ pendingLaunchResolve' = TRUE
            /\ wflTimer' = "armed"

\* startDebugging from the for-loop over session.breakpoints on, at entry i;
\* cur is the session state on arrival
StartContinue(i, cur, bpsNow) ==
  IF i <= Len(bpsNow)
    THEN IF CanSend
           THEN /\ SendRequest("setBreakpoints", <<bpsNow[i].file, BpRequests(bpsNow[i].bps)>>, "start", 0)
                /\ startPc' = "setBreakpoints"
                /\ replayIdx' = i
                /\ awaits' = [awaits EXCEPT !["start"] = Asked]
                /\ state' = cur
                /\ UNCHANGED <<startResult, pendingLaunchResolve, wflTimer>>
           ELSE /\ StartCatch(cur)
                /\ UNCHANGED <<reqVars, replayIdx, pendingLaunchResolve, wflTimer>>
    ELSE IF capabilities.supportsConfigurationDoneRequest
           THEN IF CanSend
                  THEN /\ SendRequest("configurationDone", <<>>, "start", 0)
                       /\ startPc' = "configurationDone"
                       /\ awaits' = [awaits EXCEPT !["start"] = Asked]
                       /\ state' = cur
                       /\ UNCHANGED <<startResult, replayIdx, pendingLaunchResolve, wflTimer>>
                  ELSE /\ StartCatch(cur)
                       /\ UNCHANGED <<reqVars, replayIdx, pendingLaunchResolve, wflTimer>>
           ELSE /\ WaitForLaunch
                /\ state' = cur
                /\ UNCHANGED <<reqVars, startResult, replayIdx>>

\* startDebugging up to the first await: state initializing, client.start()
StartDebugging ==
  /\ startPc = "idle"
  /\ inTable
  /\ state' = "initializing"
  /\ startPc' = "start"
  /\ queued' = breakpoints
  /\ UNCHANGED <<ctxVars, opVars, pauseVars, stopVars, noteVars, inTable, bpVars, childVars, envVars, isConnected, reqVars, capabilities, launchVars,
                 awaits, startResult, initListener, initTimer, wflTimer, replayIdx,
                 procVars, fault, earlyInit, exitInTable>>

\* client.start() succeeds (spawn, and in tcp mode the connection), then
\* client.initialize() sends its request
ClientStart ==
  /\ startPc = "start"
  /\ ~isConnected
  /\ isConnected' = TRUE
  /\ procAlive' = TRUE
  /\ socketOpen' = (connectionMode = "tcp")
  /\ writable' = TRUE
  /\ UNCHANGED killed
  /\ pendingRequests' =
       (sequenceNumber :> [command |-> "initialize", owner |-> "start", n |-> 0])
         @@ pendingRequests
  /\ sequenceNumber' = sequenceNumber + 1
  /\ sent' = Append(sent, [seq |-> sequenceNumber, command |-> "initialize", arg |-> <<>>])
  /\ UNCHANGED childReqVars
  /\ startPc' = "initialize"
  /\ awaits' = [awaits EXCEPT !["start"] = Pending]
  /\ UNCHANGED <<ctxVars, opVars, pauseVars, stopVars, noteVars, sessVars, bpVars, childVars, envVars, capabilities, launchVars, startResult,
                 initListener, initTimer, wflTimer, replayIdx, histVars>>

\* client.start() throws: startTcp's port wait or connection fails
ClientStartFails ==
  /\ startPc = "start"
  /\ connectionMode = "tcp"
  /\ StartCatch(state)
  /\ fault' = TRUE
  /\ UNCHANGED <<ctxVars, opVars, pauseVars, stopVars, noteVars, inTable, bpVars, childVars, envVars, isConnected, reqVars, capabilities, launchVars,
                 initListener, initTimer, wflTimer, replayIdx, procVars, earlyInit, queued, exitInTable>>

\* after initialize: waitForInitialized registers listener and timer, launchAsync
InitializeDone ==
  /\ startPc = "initialize"
  /\ awaits["start"].st = "resolved"
  /\ capabilities' = awaits["start"].body
  /\ initListener' = TRUE
  /\ initTimer' = "armed"
  /\ IF CanSend
       THEN /\ SendRequest("launch", <<>>, "launch", 0)
            /\ pendingLaunchSeq' = sequenceNumber
            /\ IF writable
                 THEN /\ startPc' = "waitInitialized"
                      /\ awaits' = [awaits EXCEPT !["start"] = Pending]
                      /\ UNCHANGED <<state, startResult>>
                 ELSE StartCatch(state)
       ELSE /\ StartCatch(state)
            /\ UNCHANGED <<reqVars, pendingLaunchSeq>>
  /\ UNCHANGED <<ctxVars, opVars, pauseVars, stopVars, noteVars, inTable, bpVars, childVars, envVars, isConnected, pendingLaunchResolve, wflTimer,
                 replayIdx, procVars, histVars>>

\* an await of startDebugging rejected: the catch block
StartAwaitRejected ==
  /\ startPc \in {"initialize", "waitInitialized", "setBreakpoints", "configurationDone"}
  /\ awaits["start"].st = "rejected"
  /\ StartCatch(state)
  /\ UNCHANGED <<ctxVars, opVars, pauseVars, stopVars, noteVars, inTable, bpVars, childVars, envVars, isConnected, reqVars, capabilities, launchVars,
                 initListener, initTimer, wflTimer, replayIdx, procVars, histVars>>

\* after the initialized event: state ready, first setBreakpoints of the replay
AfterInitialized ==
  /\ startPc = "waitInitialized"
  /\ awaits["start"].st = "resolved"
  /\ StartContinue(1, UpdateState(state, "ready"), breakpoints)
  /\ UNCHANGED <<ctxVars, opVars, pauseVars, stopVars, noteVars, inTable, bpVars, childVars, envVars, isConnected, capabilities, pendingLaunchSeq,
                 initListener, initTimer, procVars, histVars>>

\* setBreakpointsInternal after its reply: the stored list becomes the result
AfterSetBreakpoints ==
  /\ startPc = "setBreakpoints"
  /\ awaits["start"].st = "resolved"
  /\ LET e == breakpoints[replayIdx]
         result == awaits["start"].body
         now == [breakpoints EXCEPT ![replayIdx] = [file |-> e.file, bps |-> result]]
     IN /\ breakpoints' = now
        /\ StartContinue(replayIdx + 1, state, now)
  /\ UNCHANGED <<dumpBreakpoints, collectedTraces, ctxVars, opVars, pauseVars, stopVars, noteVars, inTable, childVars, envVars, isConnected, capabilities, pendingLaunchSeq,
                 initListener, initTimer, procVars, histVars>>

\* after configurationDone: waitForLaunch
AfterConfigurationDone ==
  /\ startPc = "configurationDone"
  /\ awaits["start"].st = "resolved"
  /\ WaitForLaunch
  /\ UNCHANGED <<ctxVars, opVars, pauseVars, stopVars, noteVars, sessVars, bpVars, childVars, envVars, isConnected, reqVars, capabilities,
                 pendingLaunchSeq, startResult, initListener, initTimer, replayIdx,
                 procVars, histVars>>

\* waitForLaunch returned: state running, success
AfterWaitForLaunch ==
  /\ startPc = "waitLaunch"
  /\ awaits["start"].st = "resolved"
  /\ state' = UpdateState(state, "running")
  /\ startResult' = [success |-> TRUE, state |-> UpdateState(state, "running")]
  /\ startPc' = "done"
  /\ awaits' = [awaits EXCEPT !["start"] = NoAwait]
  /\ UNCHANGED <<ctxVars, opVars, pauseVars, stopVars, noteVars, inTable, bpVars, childVars, envVars, isConnected, reqVars, capabilities, launchVars,
                 initListener, initTimer, wflTimer, replayIdx, procVars, histVars>>

\* waitForInitialized's timer rejects
InitializedTimeout ==
  /\ initTimer = "armed"
  /\ initTimer' = "fired"
  /\ fault' = TRUE
  /\ awaits' = IF startPc = "waitInitialized" /\ awaits["start"].st = "pending"
                 THEN [awaits EXCEPT !["start"] = Rejected]
                 ELSE awaits
  /\ UNCHANGED <<ctxVars, opVars, pauseVars, stopVars, noteVars, sessVars, bpVars, childVars, envVars, isConnected, reqVars, capabilities, launchVars,
                 startPc, startResult, initListener, wflTimer, replayIdx, procVars,
                 earlyInit, queued, exitInTable>>

\* variant: the timer of waitForLaunch rejects
WaitForLaunchTimeoutRejects ==
  /\ wflTimer = "armed"
  /\ wflTimer' = "fired"
  /\ awaits' = IF pendingLaunchSeq # NoNum /\ startPc = "waitLaunch"
                    /\ awaits["start"].st = "pending"
                 THEN [awaits EXCEPT !["start"] = Rejected]
                 ELSE awaits
  /\ UNCHANGED <<ctxVars, opVars, pauseVars, stopVars, noteVars, sessVars, bpVars, childVars, envVars,
                 isConnected, reqVars, capabilities, launchVars, startPc, startResult,
                 initListener, initTimer, replayIdx, procVars, histVars>>

\* waitForLaunch's timer: resolves only while pendingLaunchSeq is set
WaitForLaunchTimeout ==
  /\ wflTimer = "armed"
  /\ wflTimer' = "fired"
  /\ awaits' = IF pendingLaunchSeq # NoNum /\ startPc = "waitLaunch"
                    /\ awaits["start"].st = "pending"
                 THEN [awaits EXCEPT !["start"] = Resolved(<<>>)]
                 ELSE awaits
  /\ UNCHANGED <<ctxVars, opVars, pauseVars, stopVars, noteVars, sessVars, bpVars, childVars, envVars, isConnected, reqVars, capabilities, launchVars,
                 startPc, startResult, initListener, initTimer, replayIdx, procVars,
                 histVars>>

\* --------------------------------------------------- session-manager handlers
Note(ev, n) == [ev |-> ev, n |-> n]

\* rejectAllPending: every pending record's reject is called, the table cleared
RejectAllAwaits ==
  [o \in DOMAIN awaits |->
     IF \E q \in DOMAIN pendingRequests : pendingRequests[q].owner = o
       THEN Rejected ELSE awaits[o]]


RejectAllHandlers ==
  [n \in DOMAIN handlers |->
     IF \E q \in DOMAIN pendingRequests :
          pendingRequests[q].owner = "h" /\ pendingRequests[q].n = n
       THEN [handlers[n] EXCEPT !.st = "rejected"] ELSE handlers[n]]

LaunchIsPending == \E q \in DOMAIN pendingRequests : pendingRequests[q].owner = "launch"

\* the process 'exit' and socket 'close' handlers of the client, then the
\* manager's adapterExit handler
ConnectionLost ==
  /\ isConnected' = FALSE
  /\ pendingRequests' = <<>>
  /\ awaits' = RejectAllAwaits
  /\ handlers' = RejectAllHandlers
  /\ pendingLaunchSeq' = IF LaunchIsPending THEN NoNum ELSE pendingLaunchSeq
  /\ LET afterReject == IF LaunchIsPending THEN UpdateState(state, "error") ELSE state
         errs == IF LaunchIsPending THEN {Note("error", 0)} ELSE {}
     IN IF inTable
          THEN /\ state' = "terminated"
               /\ emitted' = emitted \cup errs
                               \cup {Note("adapterExit", 0), Note("sessionTerminated", 0)}
               /\ graceTimers' = graceTimers + 1
          ELSE /\ state' = afterReject
               /\ emitted' = emitted \cup errs \cup {Note("adapterExit", 0)}
               /\ UNCHANGED graceTimers
  /\ fault' = TRUE
  /\ exitInTable' = (exitInTable \/ inTable)
  /\ UNCHANGED <<ctxVars, opVars, pauseVars, autoPending, debuggee, inTable, bpVars, childVars, envVars,
                 sequenceNumber, sent, childReqVars, capabilities, pendingLaunchResolve, startVars,
                 termVars, earlyInit, queued>>

\* the adapter process exits
ProcessExit ==
  /\ procAlive
  /\ graceTimers < MaxGrace
  /\ procAlive' = FALSE
  /\ writable' = FALSE
  /\ UNCHANGED <<socketOpen, killed>>
  /\ ConnectionLost

\* tcp mode: the primary socket closes
SocketClose ==
  /\ socketOpen
  /\ graceTimers < MaxGrace
  /\ socketOpen' = FALSE
  /\ writable' = FALSE
  /\ UNCHANGED <<procAlive, killed>>
  /\ ConnectionLost

\* this.process !== null: start() has spawned the adapter
Spawned == sequenceNumber > 1

\* the stream to the adapter stops being writable (the peer ended it) while
\* the client is still connected: sendRaw will throw
StreamEnds ==
  /\ isConnected
  /\ procAlive
  /\ writable
  /\ writable' = FALSE
  /\ fault' = TRUE
  /\ UNCHANGED <<sessVars, bpVars, ctxVars, opVars, pauseVars, stopVars, childVars, envVars,
                 isConnected, reqVars, capabilities, launchVars, awaits, startVars, noteVars,
                 procAlive, socketOpen, killed, earlyInit, queued, exitInTable>>

\* data can arrive from the adapter
AdapterUp == procAlive /\ (connectionMode = "tcp" => socketOpen)

\* the seqs of the requests written to the adapter
SentSeqs == {sent[i].seq : i \in DOMAIN sent}

Sent(command) == \E i \in 1..Len(sent) : sent[i].command = command

RequestOf(seq) == CHOOSE r \in {sent[i] : i \in 1..Len(sent)} : r.seq = seq

\* handleResponse for a request made with sendRequest
\* what the promise of the request is resolved with: the client method's
\* return value, or for the callers the response itself
ClientResult(p, rseq, body) ==
  CASE p.command = "setBreakpoints" /\ p.owner \notin Callers ->
         SetBreakpointsResult(body, RequestOf(rseq).arg[1], RequestOf(rseq).arg[2])
    [] p.owner \in Callers -> [request_seq |-> rseq]
    [] OTHER -> body

\* variant: responses are matched in arrival order, to the oldest request
PendingGetOldest(rseq) ==
  IF DOMAIN pendingRequests = {} THEN 0
  ELSE CHOOSE k \in DOMAIN pendingRequests : \A q \in DOMAIN pendingRequests : k <= q

\* this.pendingRequests.get(response.request_seq): the key found, 0 for none
PendingGet(rseq) == IF rseq \in DOMAIN pendingRequests THEN rseq ELSE 0

HandleResponse(rseq, ok, body) ==
  /\ PendingGet(rseq) # 0
  /\ pendingRequests[PendingGet(rseq)].owner # "launch"
  /\ pendingRequests' = Without(pendingRequests, rseq)
  /\ LET p == pendingRequests[PendingGet(rseq)]
     IN CASE p.owner = "h" ->
               /\ handlers' = [handlers EXCEPT ![p.n] =
                                 [@ EXCEPT !.st = IF ok THEN "resolved" ELSE "rejected",
                                           !.body = IF ok THEN body ELSE <<>>]]
               /\ UNCHANGED awaits
          [] p.owner = "auto" -> UNCHANGED <<awaits, handlers>>
          [] OTHER ->
               /\ awaits' = [awaits EXCEPT ![p.owner] =
                               IF ok THEN Resolved(ClientResult(p, rseq, body)) ELSE Rejected]
               /\ UNCHANGED handlers

\* a reply that verifies every breakpoint where it was requested, and a stack
\* trace that has the frame of the stop
Faithful(rseq, body) ==
  /\ RequestOf(rseq).command = "setBreakpoints" =>
       \A i \in 1..Len(body) : body[i].verified /\ body[i].line = NoNum
  /\ RequestOf(rseq).command = "stackTrace" => body # <<>>

\* requests that make the debuggee run
ResumeCommands == {"configurationDone", "continue", "next", "stepIn", "stepOut"}

\* the adapter answers a request
Respond(rseq, ok, body) ==
  /\ AdapterUp
  /\ HandleResponse(rseq, ok, body)
  /\ fault' = (fault \/ ~ok \/ ~Faithful(rseq, body))
  /\ debuggee' = IF ok /\ RequestOf(rseq).command \in ResumeCommands
                   THEN [debuggee EXCEPT !.running = TRUE] ELSE debuggee
  /\ UNCHANGED <<ctxVars, opVars, pauseVars, autoPending, sessVars, bpVars, childVars, envVars, isConnected, sequenceNumber, sent, childReqVars, capabilities,
                 launchVars, startVars, noteVars, procVars, earlyInit, queued, exitInTable>>

\* sendRequest's timer: remove the record and reject
RequestTimeout(seq) ==
  /\ HandleResponse(seq, FALSE, <<>>)
  /\ fault' = TRUE
  /\ UNCHANGED <<ctxVars, opVars, pauseVars, autoPending, debuggee, sessVars, bpVars, childVars, envVars, isConnected, sequenceNumber, sent, childReqVars, capabilities,
                 launchVars, startVars, noteVars, procVars, earlyInit, queued, exitInTable>>

\* handleResponse for the launch request: launchAsync's resolve and reject
LaunchResponse(ok) ==
  /\ AdapterUp
  /\ LaunchIsPending
  /\ holdLaunch => Sent("configurationDone")
  /\ pendingRequests' =
       [q \in {x \in DOMAIN pendingRequests : pendingRequests[x].owner # "launch"}
          |-> pendingRequests[q]]
  /\ pendingLaunchSeq' = NoNum
  /\ IF ok
       THEN /\ pendingLaunchResolve' = FALSE
            /\ awaits' = IF pendingLaunchResolve /\ startPc = "waitLaunch"
                              /\ awaits["start"].st = "pending"
                           THEN [awaits EXCEPT !["start"] = Resolved(<<>>)]
                           ELSE awaits
            /\ UNCHANGED <<state, emitted>>
       ELSE /\ state' = UpdateState(state, "error")
            /\ emitted' = emitted \cup {Note("error", 0)}
            /\ UNCHANGED <<pendingLaunchResolve, awaits>>
  /\ fault' = (fault \/ ~ok)
  /\ debuggee' = IF ok THEN [debuggee EXCEPT !.running = TRUE] ELSE debuggee
  /\ UNCHANGED <<ctxVars, opVars, pauseVars, handlers, autoPending, inTable, bpVars, childVars, envVars,
                 isConnected, sequenceNumber, sent, childReqVars, capabilities, startVars, graceTimers,
                 termVars, procVars, earlyInit, queued, exitInTable>>

\* the initialized event: the manager's listener, then waitForInitialized's
Initialized ==
  /\ AdapterUp
  /\ state' = UpdateState(state, "ready")
  /\ initListener' = FALSE
  /\ initTimer' = IF initListener /\ initTimer = "armed" THEN "cleared" ELSE initTimer
  /\ awaits' = IF initListener /\ startPc = "waitInitialized" /\ awaits["start"].st = "pending"
                 THEN [awaits EXCEPT !["start"] = Resolved(<<>>)]
                 ELSE awaits
  /\ earlyInit' = (earlyInit \/ ~Sent("launch"))
  /\ UNCHANGED <<ctxVars, opVars, pauseVars, stopVars, inTable, bpVars, childVars, envVars, isConnected, reqVars, capabilities, launchVars,
                 startPc, startResult, wflTimer, replayIdx, noteVars, procVars, fault, queued, exitInTable>>

\* the continued event
Continued ==
  /\ AdapterUp
  /\ state' = UpdateState(state, "running")
  /\ UNCHANGED <<ctxVars, opVars, pauseVars, stopVars, inTable, bpVars, childVars, envVars, isConnected, reqVars, capabilities, launchVars,
                 awaits, startVars, noteVars, procVars, histVars>>

\* the debuggee resumes on its own and the adapter sends the continued event:
\* the continued handler, with the debuggee noted as running
DebuggeeResumes ==
  /\ AdapterUp
  /\ ~debuggee.running
  /\ debuggee' = [debuggee EXCEPT !.running = TRUE]
  /\ state' = UpdateState(state, "running")
  /\ UNCHANGED <<ctxVars, opVars, pauseVars, handlers, autoPending, inTable, bpVars, childVars,
                 envVars, isConnected, reqVars, capabilities, launchVars, awaits, startVars,
                 noteVars, procVars, histVars>>

\* the terminated event
Terminated ==
  /\ AdapterUp
  /\ graceTimers < MaxGrace
  /\ state' = UpdateState(state, "terminated")
  /\ emitted' = emitted \cup {Note("sessionTerminated", 0)}
  /\ graceTimers' = graceTimers + 1
  /\ fault' = TRUE
  /\ UNCHANGED <<ctxVars, opVars, pauseVars, stopVars, inTable, bpVars, childVars, envVars, isConnected, reqVars, capabilities, launchVars,
                 awaits, startVars, termVars, procVars, earlyInit, queued, exitInTable>>

\* the client's error event (process 'error', socket 'error')
ClientError ==
  /\ procAlive
  /\ state' = UpdateState(state, "error")
  /\ emitted' = emitted \cup {Note("error", 0)}
  /\ fault' = TRUE
  /\ UNCHANGED <<ctxVars, opVars, pauseVars, stopVars, inTable, bpVars, childVars, envVars, isConnected, reqVars, capabilities, launchVars,
                 awaits, startVars, graceTimers, termVars, procVars, earlyInit, queued, exitInTable>>

\* a 5 s cleanup timer of the terminated and adapterExit handlers
GraceTimer ==
  /\ graceTimers > 0
  /\ graceTimers' = graceTimers - 1
  /\ inTable' = (inTable /\ state # "terminated")
  /\ UNCHANGED <<ctxVars, opVars, pauseVars, stopVars, state, bpVars, childVars, envVars, isConnected, reqVars, capabilities, launchVars,
                 awaits, startVars, emitted, termVars, procVars, histVars>>

\* ------------------------------------------------------- the stopped handler
\* the tail of the stopped handler: updateState(PAUSED), emit stopped; the
\* listener of waitForPause removes itself and starts its 50 ms delay
SurfaceStop(n) ==
  /\ state' = UpdateState(state, "paused")
  /\ emitted' = emitted \cup {Note("stopped", n)}
  /\ pauseListener' = FALSE
  /\ pauseTimer' = IF pauseListener THEN "delay" ELSE pauseTimer

NoSurface == UNCHANGED <<state, emitted, pauseListener, pauseTimer>>

BpIndex(file) ==
  IF \E i \in 1..Len(breakpoints) : breakpoints[i].file = file
    THEN CHOOSE i \in 1..Len(breakpoints) : breakpoints[i].file = file
    ELSE 0

\* session.breakpoints.get(file); <<>> also stands for undefined
BpGet(file) == IF BpIndex(file) = 0 THEN <<>> ELSE breakpoints[BpIndex(file)].bps

\* findIndex((bp) => bp.line === line), 0 for -1
FindLine(bps, line) ==
  IF \E i \in 1..Len(bps) : bps[i].line = line
    THEN CHOOSE i \in 1..Len(bps) : bps[i].line = line /\ \A j \in 1..(i - 1) : bps[j].line # line
    ELSE 0

\* collectedTraces.push with the drop of the oldest at the limit
PushTrace(traces, t) ==
  IF Len(traces) >= MAX_TRACES_IN_MEMORY THEN Append(Tail(traces), t) ELSE Append(traces, t)

\* shouldContinue = !maxDumps || dumpCount < maxDumps
ShouldContinue(maxDumps, dumpCount) == maxDumps = NoNum \/ dumpCount < maxDumps

\* the stopped handler once frames and variables are there: cache the context,
\* then the tracepoint branch
CacheAndTrace(n, frame, variables) ==
  /\ lastStopContext' = [set |-> TRUE, stackFrame |-> frame.id, variables |-> variables,
                          file |-> frame.file, line |-> frame.line]
  /\ IF <<frame.file, frame.line>> \in dumpBreakpoints
       THEN LET fi == BpIndex(frame.file)
                bi == FindLine(BpGet(frame.file), frame.line)
                old == IF bi = 0 THEN Undef ELSE breakpoints[fi].bps[bi].dumpCount
                new == (IF old = Undef THEN 0 ELSE old) + 1
                maxDumps == IF bi = 0 THEN NoNum ELSE breakpoints[fi].bps[bi].maxDumps
                dumpCount == IF bi = 0 THEN 1 ELSE new
            IN /\ breakpoints' = IF bi = 0 THEN breakpoints
                                  ELSE [breakpoints EXCEPT ![fi].bps[bi].dumpCount = new]
               /\ collectedTraces' =
                    PushTrace(collectedTraces,
                              [hitNumber |-> dumpCount, file |-> frame.file,
                               line |-> frame.line, stop |-> n])
               /\ IF ShouldContinue(maxDumps, dumpCount)
                    THEN /\ autoPending' = autoPending + 1
                         /\ NoSurface
                    ELSE /\ SurfaceStop(n)
                         /\ UNCHANGED autoPending
       ELSE /\ SurfaceStop(n)
            /\ UNCHANGED <<breakpoints, collectedTraces, autoPending>>

\* the adapter reports a stop; the handler runs to its first await
Stopped(line, max) ==
  /\ AdapterUp
  /\ debuggee.running
  /\ Len(handlers) < max
  /\ LET n == Len(handlers) + 1
     IN /\ debuggee' = [running |-> FALSE, stop |-> n, line |-> line]
        /\ IF inTable /\ CanRoute
             THEN /\ Routed("stackTrace", <<>>, "h", n)
                  /\ handlers' = Append(handlers, [pc |-> "stackTrace", frame |-> NoFrame,
                                                   st |-> RoutedAsked.st, body |-> <<>>])
                  /\ NoSurface
             ELSE /\ handlers' = Append(handlers, [pc |-> "done", frame |-> NoFrame,
                                                   st |-> "none", body |-> <<>>])
                  /\ SurfaceStop(n)
                  /\ UNCHANGED reqVars
  /\ UNCHANGED <<inTable, bpVars, ctxVars, opVars, autoPending, childVars, envVars, isConnected,
                 capabilities, launchVars, awaits, startVars, graceTimers, termVars,
                 procVars, histVars>>

HandlerDone(n) == [handlers EXCEPT ![n] = [pc |-> "done", frame |-> @.frame,
                                           st |-> "none", body |-> <<>>]]

\* after stackTrace: currentFrameId, then the scopes request
HandlerStackTrace(n) ==
  /\ n \in DOMAIN handlers
  /\ handlers[n].pc = "stackTrace"
  /\ handlers[n].st = "resolved"
  /\ LET frames == handlers[n].body
     IN IF frames = <<>>
          THEN /\ handlers' = HandlerDone(n)
               /\ SurfaceStop(n)
               /\ UNCHANGED <<reqVars, currentFrameId>>
          ELSE /\ currentFrameId' = frames[1].id
               /\ IF CanRoute
                    THEN /\ Routed("scopes", <<>>, "h", n)
                         /\ handlers' = [handlers EXCEPT ![n] =
                                           [pc |-> "scopes", frame |-> frames[1],
                                            st |-> RoutedAsked.st, body |-> <<>>]]
                         /\ NoSurface
                    ELSE /\ handlers' = HandlerDone(n)
                         /\ SurfaceStop(n)
                         /\ UNCHANGED reqVars
  /\ UNCHANGED <<inTable, bpVars, lastStopContext, opVars, autoPending, debuggee, childVars, envVars,
                 isConnected, capabilities, launchVars, awaits, startVars, graceTimers,
                 termVars, procVars, histVars>>

\* after scopes: the variables request of the scope named *local*, if any
HandlerScopes(n) ==
  /\ n \in DOMAIN handlers
  /\ handlers[n].pc = "scopes"
  /\ handlers[n].st = "resolved"
  /\ IF handlers[n].body
       THEN /\ IF CanRoute
                 THEN /\ Routed("variables", <<>>, "h", n)
                      /\ handlers' = [handlers EXCEPT ![n] =
                                        [pc |-> "variables", frame |-> @.frame,
                                         st |-> RoutedAsked.st, body |-> <<>>]]
                      /\ NoSurface
                 ELSE /\ handlers' = HandlerDone(n)
                      /\ SurfaceStop(n)
                      /\ UNCHANGED reqVars
            /\ UNCHANGED <<bpVars, lastStopContext, autoPending>>
       ELSE /\ handlers' = HandlerDone(n)
            /\ CacheAndTrace(n, handlers[n].frame, 0)
            /\ UNCHANGED <<reqVars, dumpBreakpoints>>
  /\ UNCHANGED <<inTable, currentFrameId, opVars, debuggee, childVars, envVars, isConnected,
                 capabilities, launchVars, awaits, startVars, graceTimers, termVars,
                 procVars, histVars>>

\* after variables: cache the context, tracepoint branch, surface the stop
HandlerVariables(n) ==
  /\ n \in DOMAIN handlers
  /\ handlers[n].pc = "variables"
  /\ handlers[n].st = "resolved"
  /\ handlers' = HandlerDone(n)
  /\ CacheAndTrace(n, handlers[n].frame, handlers[n].body)
  /\ UNCHANGED <<inTable, dumpBreakpoints, currentFrameId, opVars, debuggee, childVars, envVars,
                 isConnected, reqVars, capabilities, launchVars, awaits, startVars,
                 graceTimers, termVars, procVars, histVars>>

\* a request of the handler was rejected: the catch, then the normal stop
HandlerRejected(n) ==
  /\ n \in DOMAIN handlers
  /\ handlers[n].pc \in {"stackTrace", "scopes", "variables"}
  /\ handlers[n].st = "rejected"
  /\ handlers' = HandlerDone(n)
  /\ SurfaceStop(n)
  /\ UNCHANGED <<inTable, bpVars, ctxVars, opVars, autoPending, debuggee, childVars, envVars,
                 isConnected, reqVars, capabilities, launchVars, awaits, startVars,
                 graceTimers, termVars, procVars, histVars>>

\* variant: the continue of a tracepoint hit issued inline, while the stopped
\* handler is still at one of its awaits
AutoContinueInline ==
  /\ \E n \in DOMAIN handlers : handlers[n].pc # "done"
  /\ autoPending' = autoPending
  /\ IF CanRoute
       THEN Routed("continue", <<>>, "auto", 0)
       ELSE UNCHANGED reqVars
  /\ UNCHANGED <<sessVars, bpVars, ctxVars, opVars, pauseVars, handlers, debuggee, childVars, envVars,
                 isConnected, capabilities, launchVars, awaits, startVars, noteVars,
                 procVars, histVars>>

\* the setImmediate callback of a tracepoint hit: client.continue, errors swallowed
AutoContinue ==
  /\ autoPending > 0
  /\ autoPending' = autoPending - 1
  /\ IF CanRoute
       THEN Routed("continue", <<>>, "auto", 0)
       ELSE UNCHANGED reqVars
  /\ UNCHANGED <<sessVars, bpVars, ctxVars, opVars, pauseVars, handlers, debuggee, childVars, envVars,
                 isConnected, capabilities, launchVars, awaits, startVars, noteVars,
                 procVars, histVars>>

\* ------------------------------------------- continue, pause and the steps
WaitKinds == {"stepIn", "stepOver", "stepOut", "continueWait"}
OpKinds == WaitKinds \cup {"continue", "pause"}

\* continue with collectHits: 1, the multi-hit collection mode
CollectKind == "continueCollect"

\* the client method each call delegates to
ClientCommand(kind) ==
  CASE kind = "stepOver" -> "next"
    [] kind \in {"continueWait", CollectKind} -> "continue"
    [] OTHER -> kind

\* the value returned after waitForPause: state and the cached lastStopContext
WaitResult ==
  [success |-> TRUE, state |-> state, stoppedAt |-> lastStopContext.stackFrame,
   variables |-> lastStopContext.variables]

\* the value returned without a wait, and from the catch
PlainResult(ok) == [success |-> ok, state |-> state, stoppedAt |-> 0, variables |-> 0]

\* the return after waitForPause; the collection mode pushes the TracePoint of
\* the hit when the session is paused
AfterWaitForPause ==
  /\ opPc' = "done"
  /\ IF opKind = CollectKind
       THEN /\ opResult' = PlainResult(TRUE)
            /\ collectedTraces' =
                 IF state = "paused" /\ lastStopContext.set
                   THEN Append(collectedTraces,
                               [hitNumber |-> 1, file |-> lastStopContext.file,
                                line |-> lastStopContext.line,
                                stop |-> lastStopContext.stackFrame])
                   ELSE collectedTraces
       ELSE /\ opResult' = WaitResult
            /\ UNCHANGED collectedTraces

\* stepIn / stepOver / stepOut / continue / pause up to the await of the request
OpCall(kind) ==
  /\ opPc \in {"idle", "done"}
  /\ opCalls < MaxOps
  /\ inTable
  /\ opCalls' = opCalls + 1
  /\ opKind' = kind
  /\ opPc' = "request"
  /\ opResult' = NoResult
  /\ ctxAtCall' = [ctx |-> lastStopContext, state |-> state, traces |-> collectedTraces,
                    breakpoints |-> breakpoints, stops |-> Len(handlers)]
  /\ collectedTraces' = IF kind = CollectKind THEN <<>> ELSE collectedTraces
  /\ IF CanRoute
       THEN /\ Routed(ClientCommand(kind), <<>>, "op", 0)
            /\ awaits' = [awaits EXCEPT !["op"] = RoutedAsked]
       ELSE /\ awaits' = [awaits EXCEPT !["op"] = Rejected]
            /\ UNCHANGED reqVars
  /\ UNCHANGED <<callVars, sessVars, breakpoints, dumpBreakpoints, ctxVars, pauseVars, stopVars,
                 childVars, envVars, isConnected, capabilities, launchVars, startVars, noteVars,
                 procVars, histVars>>

\* the request resolved: return, or waitForPause up to its promise
OpRequestDone ==
  /\ opPc = "request"
  /\ awaits["op"].st = "resolved"
  /\ awaits' = [awaits EXCEPT !["op"] = NoAwait]
  /\ IF opKind \notin WaitKinds \cup {CollectKind}
       THEN /\ opPc' = "done"
            /\ opResult' = PlainResult(TRUE)
            /\ UNCHANGED <<pauseVars, collectedTraces>>
       ELSE IF ~inTable
         THEN /\ opPc' = "done"
              /\ opResult' = PlainResult(FALSE)
              /\ UNCHANGED <<pauseVars, collectedTraces>>
         ELSE IF state = "paused"
           THEN /\ AfterWaitForPause
                /\ UNCHANGED pauseVars
           ELSE /\ opPc' = "waitPause"
                /\ pauseListener' = TRUE
                /\ pauseTimer' = "armed"
                /\ UNCHANGED <<opResult, collectedTraces>>
  /\ UNCHANGED <<callVars, sessVars, breakpoints, dumpBreakpoints, ctxVars, opKind, opCalls, ctxAtCall, stopVars, childVars, envVars,
                 isConnected, reqVars, capabilities, launchVars, startVars, noteVars,
                 procVars, histVars>>

\* the request was rejected: the catch
OpRequestRejected ==
  /\ opPc = "request"
  /\ awaits["op"].st = "rejected"
  /\ awaits' = [awaits EXCEPT !["op"] = NoAwait]
  /\ opPc' = "done"
  /\ opResult' = PlainResult(FALSE)
  /\ UNCHANGED <<callVars, sessVars, bpVars, ctxVars, opKind, opCalls, ctxAtCall, pauseVars, stopVars,
                 childVars, envVars, isConnected, reqVars, capabilities, launchVars, startVars,
                 noteVars, procVars, histVars>>

\* waitForPause's timeout: remove the listener, resolve; the call returns
PauseTimeout ==
  /\ opPc = "waitPause"
  /\ pauseTimer = "armed"
  /\ pauseListener' = FALSE
  /\ pauseTimer' = "none"
  /\ AfterWaitForPause
  /\ UNCHANGED <<callVars, sessVars, breakpoints, dumpBreakpoints, ctxVars, opKind, opCalls, ctxAtCall, stopVars, childVars, envVars,
                 isConnected, reqVars, capabilities, launchVars, awaits, startVars,
                 noteVars, procVars, histVars>>

\* the 50 ms timer started by waitForPause's stopped listener; the call returns
PauseDelay ==
  /\ opPc = "waitPause"
  /\ pauseTimer = "delay"
  /\ pauseTimer' = "none"
  /\ AfterWaitForPause
  /\ UNCHANGED <<callVars, sessVars, breakpoints, dumpBreakpoints, ctxVars, opKind, opCalls, ctxAtCall, pauseListener,
                 stopVars, childVars, envVars, isConnected, reqVars, capabilities, launchVars, awaits,
                 startVars, noteVars, procVars, histVars>>

\* ------------------------------------------------------------- breakpoints
NoBp ==
  [id |-> 0, file |-> None, line |-> NoNum, verified |-> FALSE, condition |-> None,
   hitCondition |-> None, logMessage |-> None, trace |-> FALSE, dumpFile |-> None,
   maxDumps |-> NoNum, dumpCount |-> Undef]

NoBpResult == [success |-> FALSE, breakpoint |-> NoBp]

\* bps.find((b) => b.line === line), NoBp for undefined
FindBp(bps, line) == IF FindLine(bps, line) = 0 THEN NoBp ELSE bps[FindLine(bps, line)]

ActiveStates == {"ready", "running", "paused"}

\* session.breakpoints.set(file, list)
BpSet(table, file, list) ==
  IF \E i \in 1..Len(table) : table[i].file = file
    THEN [i \in 1..Len(table) |->
            IF table[i].file = file THEN [file |-> file, bps |-> list] ELSE table[i]]
    ELSE Append(table, [file |-> file, bps |-> list])

\* the list of setBreakpoint after the update or the push
WithBreakpoint(existing, req) ==
  IF FindLine(existing, req.line) # 0
    THEN [existing EXCEPT ![FindLine(existing, req.line)] =
            [@ EXCEPT !.condition = req.condition, !.hitCondition = req.hitCondition,
                      !.logMessage = req.logMessage, !.dumpFile = req.dumpFile,
                      !.trace = req.trace, !.maxDumps = req.maxDumps, !.dumpCount = 0]]
    ELSE Append(existing,
                [id |-> 0, file |-> req.file, line |-> req.line, verified |-> FALSE,
                 condition |-> req.condition, hitCondition |-> req.hitCondition,
                 logMessage |-> req.logMessage, trace |-> req.trace,
                 dumpFile |-> req.dumpFile, maxDumps |-> req.maxDumps, dumpCount |-> 0])

\* listBreakpoints: the lists of all files, concatenated
RECURSIVE Concat(_)
Concat(table) == IF table = <<>> THEN <<>> ELSE table[1].bps \o Concat(Tail(table))

listBreakpoints == Concat(breakpoints)

\* the call in progress, or the last one
bpCall ==
  [kind |-> bpLog[Len(bpLog)].kind, file |-> bpLog[Len(bpLog)].req.file,
   line |-> bpLog[Len(bpLog)].req.line]

\* setBreakpointsInternal up to its await
SendSetBreakpoints(file, list) ==
  IF CanSend
    THEN /\ SendRequest("setBreakpoints", <<file, BpRequests(list)>>, "bp", 0)
         /\ awaits' = [awaits EXCEPT !["bp"] = Asked]
    ELSE /\ awaits' = [awaits EXCEPT !["bp"] = Rejected]
         /\ UNCHANGED reqVars

\* setBreakpoint up to its await, or to its return in other states
SetBreakpoint(req) ==
  /\ bpPc \in {"idle", "done", "thrown"}
  /\ bpCalls < MaxBpCalls
  /\ inTable
  /\ bpCalls' = bpCalls + 1
  /\ bpLog' = Append(bpLog, [kind |-> "set", req |-> req, state |-> state])
  /\ LET list == WithBreakpoint(BpGet(req.file), req)
     IN /\ breakpoints' = BpSet(breakpoints, req.file, list)
        /\ dumpBreakpoints' = IF req.trace \/ req.dumpFile # None
                                THEN dumpBreakpoints \cup {<<req.file, req.line>>}
                                ELSE dumpBreakpoints \ {<<req.file, req.line>>}
        /\ IF state \in ActiveStates
             THEN /\ SendSetBreakpoints(req.file, list)
                  /\ bpPc' = "await"
                  /\ bpResult' = NoBpResult
             ELSE /\ bpPc' = "done"
                  /\ bpResult' = [success |-> TRUE, breakpoint |-> FindBp(list, req.line)]
                  /\ UNCHANGED <<reqVars, awaits>>
  /\ UNCHANGED <<sessVars, collectedTraces, ctxVars, stepVars, pauseVars, stopVars, childVars, envVars,
                 isConnected, capabilities, launchVars, startVars, noteVars, procVars,
                 histVars>>

\* removeBreakpoint up to its await, or to its return
RemoveBreakpoint(file, line) ==
  /\ bpPc \in {"idle", "done", "thrown"}
  /\ bpCalls < MaxBpCalls
  /\ inTable
  /\ bpCalls' = bpCalls + 1
  /\ bpLog' = Append(bpLog, [kind |-> "remove", req |-> [file |-> file, line |-> line],
                             state |-> state])
  /\ LET list == BpGet(file)
         index == FindLine(list, line)
         spliced == [i \in 1..(Len(list) - 1) |-> IF i < index THEN list[i] ELSE list[i + 1]]
     IN IF BpIndex(file) = 0 \/ index = 0
          THEN /\ bpPc' = "done"
               /\ bpResult' = NoBpResult
               /\ UNCHANGED <<breakpoints, reqVars, awaits>>
          ELSE /\ breakpoints' = BpSet(breakpoints, file, spliced)
               /\ IF state \in ActiveStates
                    THEN /\ SendSetBreakpoints(file, spliced)
                         /\ bpPc' = "await"
                         /\ bpResult' = NoBpResult
                    ELSE /\ bpPc' = "done"
                         /\ bpResult' = [success |-> TRUE, breakpoint |-> NoBp]
                         /\ UNCHANGED <<reqVars, awaits>>
  /\ UNCHANGED <<sessVars, dumpBreakpoints, collectedTraces, ctxVars, stepVars, pauseVars,
                 stopVars, childVars, envVars, isConnected, capabilities, launchVars, startVars,
                 noteVars, procVars, histVars>>

\* setBreakpointsInternal after its reply: the stored list becomes the result;
\* then the return of setBreakpoint or removeBreakpoint
SetBreakpointsDone ==
  /\ bpPc = "await"
  /\ awaits["bp"].st = "resolved"
  /\ awaits' = [awaits EXCEPT !["bp"] = NoAwait]
  /\ LET result == awaits["bp"].body
     IN /\ breakpoints' = BpSet(breakpoints, bpCall.file, result)
        /\ bpResult' = IF bpCall.kind = "set"
                         THEN [success |-> FindBp(result, bpCall.line).verified,
                               breakpoint |-> FindBp(result, bpCall.line)]
                         ELSE [success |-> TRUE, breakpoint |-> NoBp]
  /\ bpPc' = "done"
  /\ UNCHANGED <<sessVars, dumpBreakpoints, collectedTraces, ctxVars, stepVars, bpLog,
                 bpCalls, pauseVars, stopVars, childVars, envVars, isConnected, reqVars, capabilities,
                 launchVars, startVars, noteVars, procVars, histVars>>

\* the setBreakpoints request was rejected: the call throws
SetBreakpointsRejected ==
  /\ bpPc = "await"
  /\ awaits["bp"].st = "rejected"
  /\ awaits' = [awaits EXCEPT !["bp"] = NoAwait]
  /\ bpPc' = "thrown"
  /\ UNCHANGED <<sessVars, bpVars, ctxVars, stepVars, bpLog, bpResult, bpCalls, pauseVars,
                 stopVars, childVars, envVars, isConnected, reqVars, capabilities, launchVars,
                 startVars, noteVars, procVars, histVars>>

\* ---------------------------------------------------------- terminateSession
\* terminateSession up to the await inside client.disconnect
TerminateSession ==
  /\ termPc = "idle"
  /\ IF ~inTable
       THEN /\ termPc' = "done"
            /\ termResult' = [success |-> FALSE]
            /\ UNCHANGED <<reqVars, awaits>>
       ELSE /\ termPc' = "disconnect"
            /\ UNCHANGED termResult
            /\ IF CanSend
                 THEN /\ SendRequest("disconnect", <<>>, "term", 0)
                      /\ awaits' = [awaits EXCEPT !["term"] = Asked]
                 ELSE /\ awaits' = [awaits EXCEPT !["term"] = Rejected]
                      /\ UNCHANGED reqVars
  /\ UNCHANGED <<ctxVars, opVars, pauseVars, stopVars, sessVars, bpVars, childVars, envVars, isConnected, capabilities, launchVars,
                 startVars, graceTimers, emitted, procVars, histVars>>

\* client.disconnect after its request settled, then sessions.delete
TerminateFinish ==
  /\ termPc = "disconnect"
  /\ awaits["term"].st \in {"resolved", "rejected"}
  /\ isConnected' = FALSE
  /\ pendingRequests' = <<>>
  /\ awaits' = [RejectAllAwaits EXCEPT !["term"] = NoAwait]
  /\ handlers' = RejectAllHandlers
  /\ pendingLaunchSeq' = IF LaunchIsPending THEN NoNum ELSE pendingLaunchSeq
  /\ state' = IF LaunchIsPending THEN UpdateState(state, "error") ELSE state
  /\ emitted' = IF LaunchIsPending THEN emitted \cup {Note("error", 0)} ELSE emitted
  /\ inTable' = FALSE
  /\ termPc' = "done"
  /\ termResult' = [success |-> TRUE]
  /\ writable' = FALSE
  /\ killed' = (killed \/ Spawned)
  /\ UNCHANGED <<ctxVars, opVars, pauseVars, autoPending, debuggee, bpVars, childVars, envVars,
                 sequenceNumber, sent, childReqVars, capabilities, pendingLaunchResolve,
                 startVars, graceTimers, procAlive, socketOpen, histVars>>

\* ------------------------------------------------------- the child session
\* the seq the adapter gives its next reverse request on a connection; each
\* connection has its own numbering
ReverseSeq(conn) ==
  10 + Cardinality({i \in DOMAIN reverseRequests : reverseRequests[i].conn = conn}) + 1

\* variant: a response that carries the client's own seq as request_seq
SendReverseResponseOwnSeq(request, ok) ==
  /\ sequenceNumber' = sequenceNumber + 1
  /\ sent' = IF writable
               THEN Append(sent, [seq |-> sequenceNumber, command |-> "response",
                                  arg |-> <<ok, sequenceNumber, request.command>>])
               ELSE sent
  /\ UNCHANGED <<pendingRequests, childReqVars>>

\* sendReverseResponse: a response with the request's seq and command, written
\* by sendRaw to the primary connection under the client's sequenceNumber
SendReverseResponse(request, ok) ==
  /\ sequenceNumber' = sequenceNumber + 1
  /\ sent' = IF writable
               THEN Append(sent, [seq |-> sequenceNumber, command |-> "response",
                                  arg |-> <<ok, request.seq, request.command>>])
               ELSE sent
  /\ UNCHANGED <<pendingRequests, childReqVars>>

\* the startDebugging request the handshake in progress belongs to
StartRequest ==
  reverseRequests[CHOOSE i \in DOMAIN reverseRequests :
                    reverseRequests[i].command = "startDebugging"]

\* the adapter's startDebugging reverse request: handleStartDebugging up to its
\* await of createChildSession, or to its response
ReverseStartDebugging(targetId) ==
  /\ AdapterUp
  /\ Sent("launch")
  /\ childPc = "none"
  /\ LET request == [seq |-> ReverseSeq("primary"), command |-> "startDebugging", conn |-> "primary"]
     IN /\ reverseRequests' = Append(reverseRequests, request)
        /\ IF ~targetId
             THEN /\ SendReverseResponse(request, FALSE)
                  /\ childPc' = "failed"
             ELSE IF connectionMode = "tcp"
               THEN /\ childPc' = "connecting"
                    /\ UNCHANGED reqVars
               ELSE /\ SendReverseResponse(request, TRUE)
                    /\ childPc' = "acknowledged"
  /\ UNCHANGED <<sessVars, bpVars, ctxVars, opVars, pauseVars, stopVars, activeChildSession,
                 connectionMode, holdLaunch, parserVars, isConnected, capabilities,
                 launchVars, awaits, startVars, noteVars, procVars, histVars>>

\* handleReverseRequest for runInTerminal and for an unknown command, received
\* on the primary connection or (handleChildMessage) on the child connection
ReverseRequest(conn, command) ==
  /\ Len(reverseRequests) < MaxReverse
  /\ IF conn = "primary" THEN AdapterUp /\ isConnected ELSE procAlive /\ activeChildSession
  /\ LET request == [seq |-> ReverseSeq(conn), command |-> command, conn |-> conn]
     IN /\ reverseRequests' = Append(reverseRequests, request)
        /\ SendReverseResponse(request, FALSE)
  /\ UNCHANGED <<sessVars, bpVars, ctxVars, opVars, pauseVars, stopVars, childVars,
                 connectionMode, holdLaunch, parserVars, isConnected, capabilities,
                 launchVars, awaits, startVars, noteVars, procVars, histVars>>

\* createChildSession after its connection: the session becomes the active one;
\* initializeChildSession up to its first await
ChildConnected ==
  /\ childPc = "connecting"
  /\ procAlive
  /\ activeChildSession' = TRUE
  /\ SendRequestToChild("initialize", <<>>, "child", 0)
  /\ awaits' = [awaits EXCEPT !["child"] = Pending]
  /\ childPc' = "initialize"
  /\ UNCHANGED <<sessVars, bpVars, ctxVars, opVars, pauseVars, stopVars, envVars, isConnected,
                 capabilities, launchVars, startVars, noteVars, procVars, histVars>>

\* the connection of createChildSession fails or times out
ChildConnectFails ==
  /\ childPc = "connecting"
  /\ SendReverseResponse(StartRequest, FALSE)
  /\ childPc' = "failed"
  /\ fault' = TRUE
  /\ UNCHANGED <<sessVars, bpVars, ctxVars, opVars, pauseVars, stopVars, activeChildSession,
                 envVars, isConnected, capabilities, launchVars, awaits, startVars, noteVars,
                 procVars, earlyInit, queued, exitInTable>>

ChildRequestOf(seq) == CHOOSE r \in {childSent[i] : i \in DOMAIN childSent} : r.seq = seq

\* handleChildMessage for a response, and the timer of waitForChildResponse
HandleChildResponse(seq, ok, body) ==
  /\ seq \in DOMAIN childPending
  /\ childPending' = Without(childPending, seq)
  /\ UNCHANGED <<childSeq, childSent, sequenceNumber, pendingRequests, sent>>
  /\ LET p == childPending[seq]
     IN CASE p.owner = "h" ->
               /\ handlers' = [handlers EXCEPT ![p.n] =
                                 [@ EXCEPT !.st = IF ok THEN "resolved" ELSE "rejected",
                                           !.body = IF ok THEN body ELSE <<>>]]
               /\ UNCHANGED awaits
          [] p.owner = "auto" -> UNCHANGED <<awaits, handlers>>
          [] OTHER ->
               /\ awaits' = [awaits EXCEPT ![p.owner] =
                               IF ok THEN Resolved(IF p.owner \in Callers
                                                     THEN [request_seq |-> seq] ELSE body)
                                     ELSE Rejected]
               /\ UNCHANGED handlers

\* the adapter answers a request on the child connection
ChildRespond(seq, ok, body) ==
  /\ procAlive
  /\ activeChildSession
  /\ HandleChildResponse(seq, ok, body)
  /\ fault' = (fault \/ ~ok \/ (ChildRequestOf(seq).command = "stackTrace" /\ body = <<>>))
  /\ debuggee' = IF ok /\ ChildRequestOf(seq).command \in ResumeCommands
                   THEN [debuggee EXCEPT !.running = TRUE] ELSE debuggee
  /\ UNCHANGED <<sessVars, bpVars, ctxVars, opVars, pauseVars, autoPending, childVars, envVars,
                 isConnected, capabilities, launchVars, startVars, noteVars, procVars,
                 earlyInit, queued, exitInTable>>

\* the timer of waitForChildResponse: remove the record and reject
ChildTimeout(seq) ==
  /\ HandleChildResponse(seq, FALSE, <<>>)
  /\ fault' = TRUE
  /\ UNCHANGED <<sessVars, bpVars, ctxVars, opVars, pauseVars, autoPending, debuggee, childVars,
                 envVars, isConnected, capabilities, launchVars, startVars, noteVars,
                 procVars, earlyInit, queued, exitInTable>>

\* variant: the attach request written without waiting for the initialize response
ChildInitializeNotAwaited ==
  /\ childPc = "initialize"
  /\ SendRequestToChild("attach", <<TRUE>>, "child", 0)
  /\ awaits' = [awaits EXCEPT !["child"] = Pending]
  /\ childPc' = "attach"
  /\ UNCHANGED <<sessVars, bpVars, ctxVars, opVars, pauseVars, stopVars, activeChildSession,
                 envVars, isConnected, capabilities, launchVars, startVars, noteVars,
                 procVars, histVars>>

\* initializeChildSession after the initialize response: the attach request,
\* whose __pendingTargetId is the session's targetId (TRUE: the id of the request)
ChildInitializeDone ==
  /\ childPc = "initialize"
  /\ awaits["child"].st = "resolved"
  /\ SendRequestToChild("attach", <<TRUE>>, "child", 0)
  /\ awaits' = [awaits EXCEPT !["child"] = Pending]
  /\ childPc' = "attach"
  /\ UNCHANGED <<sessVars, bpVars, ctxVars, opVars, pauseVars, stopVars, activeChildSession,
                 envVars, isConnected, capabilities, launchVars, startVars, noteVars,
                 procVars, histVars>>

\* after attach, answered or not: the configurationDone request
ChildAttachDone ==
  /\ childPc = "attach"
  /\ awaits["child"].st \in {"resolved", "rejected"}
  /\ SendRequestToChild("configurationDone", <<>>, "child", 0)
  /\ awaits' = [awaits EXCEPT !["child"] = Pending]
  /\ childPc' = "configurationDone"
  /\ UNCHANGED <<sessVars, bpVars, ctxVars, opVars, pauseVars, stopVars, activeChildSession,
                 envVars, isConnected, capabilities, launchVars, startVars, noteVars,
                 procVars, histVars>>

\* createChildSession returned: handleStartDebugging answers the reverse request
ChildConfigurationDone ==
  /\ childPc = "configurationDone"
  /\ awaits["child"].st = "resolved"
  /\ SendReverseResponse(StartRequest, TRUE)
  /\ awaits' = [awaits EXCEPT !["child"] = NoAwait]
  /\ childPc' = "done"
  /\ UNCHANGED <<sessVars, bpVars, ctxVars, opVars, pauseVars, stopVars, activeChildSession,
                 envVars, isConnected, capabilities, launchVars, startVars, noteVars,
                 procVars, histVars>>

\* createChildSession threw: the catch of handleStartDebugging
ChildHandshakeRejected ==
  /\ childPc \in {"initialize", "configurationDone"}
  /\ awaits["child"].st = "rejected"
  /\ SendReverseResponse(StartRequest, FALSE)
  /\ awaits' = [awaits EXCEPT !["child"] = NoAwait]
  /\ childPc' = "failed"
  /\ UNCHANGED <<sessVars, bpVars, ctxVars, opVars, pauseVars, stopVars, activeChildSession,
                 envVars, isConnected, capabilities, launchVars, startVars, noteVars,
                 procVars, histVars>>

\* the child socket's close handler
ChildSocketClose ==
  /\ activeChildSession
  /\ activeChildSession' = FALSE
  /\ fault' = TRUE
  /\ UNCHANGED <<sessVars, bpVars, ctxVars, opVars, pauseVars, stopVars, childPc, envVars,
                 isConnected, reqVars, capabilities, launchVars, awaits, startVars, noteVars,
                 procVars, earlyInit, queued, exitInTable>>

\* ------------------------------------------------------- the message codec
\* A string is a sequence of characters and a Buffer a sequence of bytes.  The
\* characters are the ASCII ones of the framing, "K" for the header name
\* Content-Length, "g" for another header character, "a" and two characters
\* that take two and three bytes in UTF-8, and U+FFFD, which decoding puts in
\* the place of a malformed byte sequence.
CR == "cr"
LF == "lf"
BodyChars == {"a", "U+E9", "U+20AC"}
DigitOf == [c \in {"0", "1", "2", "3", "4", "5", "6", "7", "8", "9"} |->
              CASE c = "0" -> 0 [] c = "1" -> 1 [] c = "2" -> 2 [] c = "3" -> 3
                [] c = "4" -> 4 [] c = "5" -> 5 [] c = "6" -> 6 [] c = "7" -> 7
                [] c = "8" -> 8 [] c = "9" -> 9]
\* parseInt's NaN
NaN == -1

Drop(s, n) == SubSeq(s, n + 1, Len(s))

\* the UTF-8 bytes of a character
Utf8(c) ==
  CASE c = "U+E9" -> <<"c3", "a9">>
    [] c = "U+20AC" -> <<"e2", "82", "ac">>
    [] c = "U+FFFD" -> <<"ef", "bf", "bd">>
    [] OTHER -> <<c>>

\* Buffer.from(str, 'utf8')
RECURSIVE ToBytes(_)
ToBytes(str) == IF str = <<>> THEN <<>> ELSE Utf8(Head(str)) \o ToBytes(Tail(str))

\* buf.toString('utf8'): a truncated or stray sequence decodes to U+FFFD
RECURSIVE BufferToString(_)
BufferToString(b) ==
  IF b = <<>> THEN <<>>
  ELSE IF b[1] = "c3"
    THEN IF Len(b) >= 2 /\ b[2] = "a9"
           THEN <<"U+E9">> \o BufferToString(Drop(b, 2))
           ELSE <<"U+FFFD">> \o BufferToString(Drop(b, 1))
  ELSE IF b[1] = "e2"
    THEN IF Len(b) >= 3 /\ b[2] = "82" /\ b[3] = "ac"
           THEN <<"U+20AC">> \o BufferToString(Drop(b, 3))
           ELSE IF Len(b) >= 2 /\ b[2] = "82"
             THEN <<"U+FFFD">> \o BufferToString(Drop(b, 2))
             ELSE <<"U+FFFD">> \o BufferToString(Drop(b, 1))
  ELSE IF b[1] = "ef"
    THEN IF Len(b) >= 3 /\ b[2] = "bf" /\ b[3] = "bd"
           THEN <<"U+FFFD">> \o BufferToString(Drop(b, 3))
           ELSE IF Len(b) >= 2 /\ b[2] = "bf"
             THEN <<"U+FFFD">> \o BufferToString(Drop(b, 2))
             ELSE <<"U+FFFD">> \o BufferToString(Drop(b, 1))
  ELSE IF b[1] \in {"a9", "82", "ac", "bf", "bd"}
    THEN <<"U+FFFD">> \o BufferToString(Drop(b, 1))
  ELSE <<b[1]>> \o BufferToString(Drop(b, 1))

\* Buffer.byteLength(str, 'utf8')
ByteLength(str) == Len(ToBytes(str))

\* str.indexOf(sep) for a separator of two or four characters, counted from 1;
\* 0 for -1
IndexOf(str, sep) ==
  LET hits == {i \in 1..(Len(str) - Len(sep) + 1) : SubSeq(str, i, i + Len(sep) - 1) = sep}
  IN IF hits = {} THEN 0 ELSE CHOOSE i \in hits : \A j \in hits : i <= j

\* str.split('\r\n')
RECURSIVE Split(_)
Split(str) ==
  LET i == IndexOf(str, <<CR, LF>>)
  IN IF i = 0 THEN <<str>> ELSE <<SubSeq(str, 1, i - 1)>> \o Split(Drop(str, i + 1))

\* str.trim()
RECURSIVE Trim(_)
Trim(str) ==
  IF str # <<>> /\ Head(str) = " " THEN Trim(Tail(str))
  ELSE IF str # <<>> /\ str[Len(str)] = " " THEN Trim(SubSeq(str, 1, Len(str) - 1))
  ELSE str

\* parseHeaders(headerSection).get('content-length'): the value of the last
\* line whose key is Content-Length, undefined when there is none
ContentLength(headerSection) ==
  LET lines == Split(headerSection)
      named == {i \in DOMAIN lines :
                  /\ IndexOf(lines[i], <<":">>) # 0
                  /\ Trim(SubSeq(lines[i], 1, IndexOf(lines[i], <<":">>) - 1)) = <<"K">>}
  IN IF named = {} THEN [defined |-> FALSE, value |-> <<>>]
     ELSE LET i == CHOOSE k \in named : \A j \in named : j <= k
          IN [defined |-> TRUE, value |-> Trim(Drop(lines[i], IndexOf(lines[i], <<":">>)))]

\* parseInt(value, 10): the number of the leading digits, NaN without one
RECURSIVE ParseDigits(_, _)
ParseDigits(value, acc) ==
  IF value # <<>> /\ Head(value) \in DOMAIN DigitOf
    THEN ParseDigits(Tail(value), 10 * acc + DigitOf[Head(value)])
    ELSE acc
ParseInt(value) ==
  IF value # <<>> /\ Head(value) \in DOMAIN DigitOf THEN ParseDigits(value, 0) ELSE NaN

\* the decimal digits of a number, as the template literal writes it
RECURSIVE ToDigits(_)
ToDigits(n) ==
  LET d == CHOOSE c \in DOMAIN DigitOf : DigitOf[c] = n % 10
  IN IF n < 10 THEN <<d>> ELSE ToDigits(n \div 10) \o <<d>>

\* JSON.stringify and JSON.parse of a message, a sequence of BodyChars
JsonStringify(m) == <<"{">> \o m \o <<"}">>
JsonParse(text) ==
  IF /\ Len(text) >= 2 /\ text[1] = "{" /\ text[Len(text)] = "}"
     /\ \A i \in 2..(Len(text) - 1) : text[i] \in BodyChars \cup {"U+FFFD"}
    THEN [ok |-> TRUE, message |-> SubSeq(text, 2, Len(text) - 1)]
    ELSE [ok |-> FALSE, message |-> <<>>]

\* variant: the header carries the number of characters of the body
EncodeMessageChars(m) ==
  <<"K", ":", " ">> \o ToDigits(Len(JsonStringify(m))) \o <<CR, LF, CR, LF>> \o JsonStringify(m)

\* encodeMessage
EncodeMessage(m) ==
  <<"K", ":", " ">> \o ToDigits(ByteLength(JsonStringify(m))) \o <<CR, LF, CR, LF>>
    \o JsonStringify(m)

\* tryParse on a buffer: what it returns and the buffer it leaves
TryParse(buf) ==
  LET bufferStr == BufferToString(buf)
      headerEnd == IndexOf(bufferStr, <<CR, LF, CR, LF>>)
      headerSection == SubSeq(bufferStr, 1, headerEnd - 1)
      contentLength == ContentLength(headerSection)
      headerBytes == ByteLength(headerSection) + 4
      length == ParseInt(contentLength.value)
      totalBytes == headerBytes + length
      json == JsonParse(BufferToString(SubSeq(buf, headerBytes + 1, totalBytes)))
  IN IF headerEnd = 0
       THEN [result |-> "null", buffer |-> buf, message |-> <<>>]
     ELSE IF ~contentLength.defined \/ length = NaN \/ length < 0
       THEN [result |-> "null", buffer |-> Drop(buf, headerBytes), message |-> <<>>]
     ELSE IF Len(buf) < totalBytes
       THEN [result |-> "null", buffer |-> buf, message |-> <<>>]
     ELSE IF json.ok
       THEN [result |-> "message", buffer |-> Drop(buf, totalBytes), message |-> json.message]
       ELSE [result |-> "throw", buffer |-> Drop(buf, totalBytes), message |-> <<>>]

\* the while loop of parseAll: tryParse until it returns null; a throw ends it
RECURSIVE ParseLoop(_, _)
LoopStep(r, messages) ==
  IF r.result = "message" THEN ParseLoop(r.buffer, Append(messages, r.message))
  ELSE [messages |-> messages, buffer |-> r.buffer, result |-> r.result]
ParseLoop(buf, messages) == LoopStep(TryParse(buf), messages)

\* one tryParse seen as a loop of one round
LoopStepOnce(r) ==
  [messages |-> IF r.result = "message" THEN <<r.message>> ELSE <<>>, buffer |-> r.buffer,
   result |-> r.result]

\* parseAll
ParseAll(buf) == ParseLoop(buf, <<>>)

otherVars ==
  <<inTable, state, breakpoints, dumpBreakpoints, collectedTraces, lastStopContext,
    currentFrameId, handlers, autoPending, opPc, opKind, opResult, opCalls,
    pauseListener, pauseTimer, ctxAtCall, bpPc, bpLog, bpResult, bpCalls, debuggee,
    connectionMode, isConnected, sequenceNumber, pendingRequests, capabilities,
    pendingLaunchSeq, pendingLaunchResolve, awaits, startPc, startResult, initListener,
    initTimer, wflTimer, replayIdx, graceTimers, emitted, termPc, termResult, procAlive,
    socketOpen, sent, holdLaunch, fault, earlyInit, queued, exitInTable, writable, killed,
    activeChildSession, childPc, childSeq, childPending, childSent, reverseRequests>>

\* what a call of parseAll that returned r leaves behind
Parsed(r) ==
  /\ buffer' = r.buffer
  /\ lastParse' = r.result
  /\ received' = IF r.result = "throw" THEN received ELSE received \o r.messages

\* parser.append(data) with the next k bytes of the stream
ParserAppend(k) ==
  /\ k \in 1..(Len(stream) - readPos)
  /\ buffer' = buffer \o SubSeq(stream, readPos + 1, readPos + k)
  /\ readPos' = readPos + k
  /\ UNCHANGED <<stream, received, lastParse, written, otherVars>>

\* one call of parser.tryParse()
ParserTryParse ==
  /\ lastParse # "throw"
  /\ Parsed(LoopStepOnce(TryParse(buffer)))
  /\ UNCHANGED <<stream, readPos, written, otherVars>>

\* handleData of a data event with the next k bytes: append, parseAll, then
\* handleMessage for each message; a throw of tryParse leaves the handler
HandleData(k) ==
  /\ lastParse # "throw"
  /\ k \in 1..(Len(stream) - readPos)
  /\ Parsed(ParseAll(buffer \o SubSeq(stream, readPos + 1, readPos + k)))
  /\ readPos' = readPos + k
  /\ UNCHANGED <<stream, written, otherVars>>

\* ---------------------------------------------------------------- the model
\* lines of the debuggee's source files
Lines == {5, 6}

\* the adapter's setBreakpoints replies: one entry per requested breakpoint,
\* the line absent, as requested, or moved
BpReplies(requests) ==
  {reply \in [1..Len(requests) -> [id : {0}, line : {NoNum} \cup Lines, verified : BOOLEAN]] :
     \A i \in 1..Len(requests) : reply[i].verified \/ reply[i].line = NoNum}

\* a caller of the correlation scenario calls its client method
Request(c) ==
  /\ awaits[c].st = "none"
  /\ IF CanRoute
       THEN /\ Routed(c, <<>>, c, 0)
            /\ awaits' = [awaits EXCEPT ![c] = RoutedAsked]
       ELSE /\ awaits' = [awaits EXCEPT ![c] = Rejected]
            /\ UNCHANGED reqVars
  /\ UNCHANGED <<sessVars, bpVars, ctxVars, opVars, pauseVars, stopVars, childVars, envVars,
                 isConnected, capabilities, launchVars, startVars, noteVars, procVars,
                 histVars>>

\* the guard of a client method: this.capabilities?.supports... ; the method
\* returns without a request when it is false
Guarded(c) ==
  CASE c = "setFunctionBreakpoints" -> ~capabilities.supportsFunctionBreakpoints
    [] c = "terminate" -> ~capabilities.supportsTerminateRequest
    [] OTHER -> FALSE

\* setFunctionBreakpoints, setExceptionBreakpoints or terminate is called
CapRequest(c) ==
  /\ awaits[c].st = "none"
  /\ IF Guarded(c)
       THEN /\ awaits' = [awaits EXCEPT ![c] = Resolved(<<>>)]
            /\ UNCHANGED reqVars
       ELSE IF CanSend
         THEN /\ SendRequest(c, <<>>, c, 0)
              /\ awaits' = [awaits EXCEPT ![c] = Asked]
         ELSE /\ awaits' = [awaits EXCEPT ![c] = Rejected]
              /\ UNCHANGED reqVars
  /\ UNCHANGED <<sessVars, bpVars, ctxVars, opVars, pauseVars, stopVars, childVars, envVars,
                 isConnected, capabilities, launchVars, startVars, noteVars, procVars,
                 histVars>>

\* the capabilities of the initialize response: an adapter that advertises the
\* optional requests (and some exception filters), and one that advertises none
InitialisedBodies ==
  {[known |-> TRUE, supportsConfigurationDoneRequest |-> b,
    supportsFunctionBreakpoints |-> b, supportsTerminateRequest |-> b,
    exceptionBreakpointFilters |-> b] : b \in BOOLEAN}

\* what the adapter may put in a successful response
Bodies(rseq) ==
  CASE RequestOf(rseq).command = "initialize" -> InitialisedBodies
    [] RequestOf(rseq).command = "stackTrace" ->
         {<<[id |-> debuggee.stop, file |-> "A", line |-> debuggee.line]>>, <<>>}
    [] RequestOf(rseq).command = "scopes" -> BOOLEAN
    [] RequestOf(rseq).command = "variables" -> {debuggee.stop}
    [] RequestOf(rseq).command = "setBreakpoints" -> BpReplies(RequestOf(rseq).arg[2])
    [] OTHER -> {<<>>}

\* a parser nothing has been appended to
ParserIdle ==
  /\ readPos = 0
  /\ buffer = <<>>
  /\ received = <<>>
  /\ lastParse = "idle"

InitSession ==
  /\ inTable = TRUE
  /\ state = "created"
  /\ breakpoints = <<>>
  /\ dumpBreakpoints = {}
  /\ collectedTraces = <<>>
  /\ lastStopContext = NoContext
  /\ currentFrameId = 0
  /\ handlers = <<>>
  /\ autoPending = 0
  /\ opPc = "idle"
  /\ opKind = None
  /\ opResult = NoResult
  /\ opCalls = 0
  /\ pauseListener = FALSE
  /\ pauseTimer = "none"
  /\ ctxAtCall = [ctx |-> NoContext, state |-> None, traces |-> <<>>, breakpoints |-> <<>>,
                   stops |-> 0]
  /\ bpPc = "idle"
  /\ bpLog = <<>>
  /\ bpResult = NoBpResult
  /\ bpCalls = 0
  /\ debuggee = [running |-> FALSE, stop |-> 0, line |-> 0]
  /\ connectionMode \in {"stdio", "tcp"}
  /\ isConnected = FALSE
  /\ sequenceNumber = 1
  /\ pendingRequests = <<>>
  /\ capabilities = NoCapabilities
  /\ pendingLaunchSeq = NoNum
  /\ pendingLaunchResolve = FALSE
  /\ awaits = [o \in Owners |-> NoAwait]
  /\ startPc = "idle"
  /\ startResult = [success |-> FALSE, state |-> "created"]
  /\ initListener = FALSE
  /\ initTimer = "none"
  /\ wflTimer = "none"
  /\ replayIdx = 0
  /\ graceTimers = 0
  /\ emitted = {}
  /\ termPc = "idle"
  /\ termResult = [success |-> FALSE]
  /\ procAlive = FALSE
  /\ socketOpen = FALSE
  /\ sent = <<>>
  /\ holdLaunch \in BOOLEAN
  /\ fault = FALSE
  /\ earlyInit = FALSE
  /\ queued = <<>>
  /\ exitInTable = FALSE
  /\ writable = FALSE
  /\ killed = FALSE
  /\ activeChildSession = FALSE
  /\ childPc = "none"
  /\ childSeq = 1
  /\ childPending = <<>>
  /\ childSent = <<>>
  /\ reverseRequests = <<>>

Init ==
  /\ InitSession
  /\ ParserIdle
  /\ stream = <<>>
  /\ written = <<>>

Next ==
  \/ StartDebugging
  \/ ClientStart
  \/ ClientStartFails
  \/ InitializeDone
  \/ StartAwaitRejected
  \/ AfterInitialized
  \/ AfterConfigurationDone
  \/ AfterWaitForLaunch
  \/ InitializedTimeout
  \/ WaitForLaunchTimeout
  \/ ProcessExit
  \/ SocketClose
  \/ \E rseq \in SentSeqs, ok \in BOOLEAN :
       \E body \in Bodies(rseq) : Respond(rseq, ok, body)
  \/ \E seq \in DOMAIN pendingRequests : RequestTimeout(seq)
  \/ \E ok \in BOOLEAN : LaunchResponse(ok)
  \/ Initialized
  \/ Continued
  \/ Terminated
  \/ ClientError
  \/ GraceTimer
  \/ TerminateSession
  \/ TerminateFinish

Spec == Init /\ [][Next]_vars

\* ------------------------------------------------ a started session, no faults
\* the start protocol against an adapter that answers every request
NextStart ==
  \/ StartDebugging
  \/ ClientStart
  \/ InitializeDone
  \/ AfterInitialized
  \/ AfterConfigurationDone
  \/ AfterWaitForLaunch
  \/ LaunchResponse(TRUE)
  \/ startPc = "waitInitialized" /\ Initialized

InitStdio == Init /\ connectionMode = "stdio" /\ ~holdLaunch

\* ---------------------------------------------------- stepping a paused session
NextStep ==
  \/ NextStart
  \/ debuggee.running /\ Continued
  \/ \E line \in {5} : startPc = "done" /\ Stopped(line, MaxStops)
  \/ \E n \in DOMAIN handlers : HandlerStackTrace(n)
  \/ \E n \in DOMAIN handlers : HandlerScopes(n)
  \/ \E n \in DOMAIN handlers : HandlerVariables(n)
  \/ \E n \in DOMAIN handlers : HandlerRejected(n)
  \/ \E kind \in OpKinds : startPc = "done" /\ OpCall(kind)
  \/ OpRequestDone
  \/ OpRequestRejected
  \/ PauseTimeout
  \/ PauseDelay
  \/ \E rseq \in SentSeqs : \E body \in Bodies(rseq) : Respond(rseq, TRUE, body)
  \/ \E rseq \in SentSeqs : startPc = "done" /\ Respond(rseq, FALSE, <<>>)

SpecStep == InitStdio /\ [][NextStep]_vars

\* ------------------------------------------------------------- a tracepoint
\* the setBreakpoint request of a tracepoint limited to three dumps
TraceInputs ==
  {[file |-> "A", line |-> 5, condition |-> None, hitCondition |-> None,
    logMessage |-> None, dumpFile |-> None, trace |-> TRUE, maxDumps |-> 3]}

NextTrace ==
  \/ NextStart
  \/ AfterSetBreakpoints
  \/ \E req \in TraceInputs : bpCalls = 0 /\ SetBreakpoint(req)
  \/ SetBreakpointsDone
  \/ \E line \in {5} : startPc = "done" /\ bpPc = "done" /\ Stopped(line, MaxHits)
  \/ \E n \in DOMAIN handlers : HandlerStackTrace(n)
  \/ \E n \in DOMAIN handlers : HandlerScopes(n)
  \/ \E n \in DOMAIN handlers : HandlerVariables(n)
  \/ AutoContinue
  \/ \E rseq \in SentSeqs : \E body \in Bodies(rseq) :
       Faithful(rseq, body) /\ Respond(rseq, TRUE, body)

SpecTrace == InitStdio /\ [][NextTrace]_vars

\* -------------------------------------------------- the breakpoint table
BpReq(file, line, condition, hitCondition) ==
  [file |-> file, line |-> line, condition |-> condition, hitCondition |-> hitCondition,
   logMessage |-> None, dumpFile |-> None, trace |-> FALSE, maxDumps |-> NoNum]

\* the setBreakpoint requests of the callers
BpInputs ==
  {BpReq("A", 5, None, None), BpReq("A", 5, "x>0", ">2"), BpReq("A", 6, "y<3", None),
   BpReq("B", 5, None, "3")}

\* setBreakpoint and removeBreakpoint are called before startDebugging or after it
NextBp ==
  \/ NextStart
  \/ AfterSetBreakpoints
  \/ \E req \in BpInputs : startPc \in {"idle", "done"} /\ SetBreakpoint(req)
  \/ \E line \in Lines : startPc \in {"idle", "done"} /\ RemoveBreakpoint("A", line)
  \/ SetBreakpointsDone
  \/ SetBreakpointsRejected
  \/ \E rseq \in SentSeqs : \E body \in Bodies(rseq) : Respond(rseq, TRUE, body)
  \/ \E rseq \in SentSeqs : startPc = "done" /\ Respond(rseq, FALSE, <<>>)

SpecBp == InitStdio /\ [][NextBp]_vars

\* ------------------------------------------------- concurrent requests
NextCorr ==
  \/ NextStart
  \/ \E c \in Callers : Request(c)
  \/ \E rseq \in SentSeqs, ok \in BOOLEAN :
       \E body \in Bodies(rseq) : Respond(rseq, ok, body)

SpecCorr == InitStdio /\ [][NextCorr]_vars

\* ------------------------------------------- the table of pending requests
NextPending ==
  \/ NextStart
  \/ \E c \in Callers : startPc = "done" /\ Request(c)
  \/ \E rseq \in SentSeqs, ok \in BOOLEAN :
       \E body \in Bodies(rseq) : Respond(rseq, ok, body)
  \/ \E seq \in DOMAIN pendingRequests : startPc = "done" /\ RequestTimeout(seq)
  \/ startPc = "done" /\ StreamEnds
  \/ startPc = "done" /\ ProcessExit

SpecPending == InitStdio /\ [][NextPending]_vars

\* ------------------------------------- a multi-session adapter (tcp mode)
InitTcp == Init /\ connectionMode = "tcp" /\ ~holdLaunch

\* what the adapter may put in a successful response on the child connection
ChildBodies(seq) ==
  CASE ChildRequestOf(seq).command = "stackTrace" ->
         {<<[id |-> debuggee.stop, file |-> "A", line |-> debuggee.line]>>, <<>>}
    [] ChildRequestOf(seq).command = "scopes" -> BOOLEAN
    [] ChildRequestOf(seq).command = "variables" -> {debuggee.stop}
    [] OTHER -> {<<>>}

\* the handshake of the child session and the answers on its connection
NextChildSession ==
  \/ \E targetId \in BOOLEAN : startPc = "done" /\ ReverseStartDebugging(targetId)
  \/ ChildConnected
  \/ ChildInitializeDone
  \/ ChildAttachDone
  \/ ChildConfigurationDone
  \/ \E seq \in DOMAIN childPending : \E body \in ChildBodies(seq) :
       ChildRespond(seq, TRUE, body)

\* requests outstanding on both connections when the adapter goes away or the
\* session is terminated
NextChild ==
  \/ NextStart
  \/ NextChildSession
  \/ ChildConnectFails
  \/ ChildHandshakeRejected
  \/ \E seq \in DOMAIN childPending :
       childPending[seq].owner = "child" /\ ChildRespond(seq, FALSE, <<>>)
  \/ \E seq \in DOMAIN childPending :
       childPending[seq].owner = "child" /\ ChildTimeout(seq)
  \/ ChildSocketClose
  \/ \E c \in {"threads", "evaluate"} : startPc = "done" /\ Request(c)
  \/ \E rseq \in SentSeqs : \E body \in Bodies(rseq) : Respond(rseq, TRUE, body)
  \/ startPc = "done" /\ ProcessExit
  \/ startPc = "done" /\ SocketClose
  \/ startPc = "done" /\ TerminateSession
  \/ TerminateFinish

SpecChild == InitTcp /\ [][NextChild]_vars

\* calls and stops come once the session runs, before the adapter asks for a
\* child session, while the child initializes, or after its handshake
Calling == startPc = "done" /\ childPc \in {"none", "initialize", "done"}

\* no call of a caller and no stopped handler is in progress
Quiet ==
  /\ \A n \in DOMAIN handlers : handlers[n].pc = "done"
  /\ \A c \in Callers : awaits[c].st # "pending"
  /\ opPc \in {"idle", "done"}

\* the stopped handler, the steps and the callers with a child session
NextRoute ==
  \/ NextStart
  \/ NextChildSession
  \/ childPc = "done" /\ ChildSocketClose
  \/ \E line \in {5} : Calling /\ Stopped(line, 1)
  \/ \E n \in DOMAIN handlers : HandlerStackTrace(n)
  \/ \E n \in DOMAIN handlers : HandlerScopes(n)
  \/ \E n \in DOMAIN handlers : HandlerVariables(n)
  \/ \E kind \in OpKinds : Calling /\ Quiet /\ OpCall(kind)
  \/ OpRequestDone
  \/ PauseTimeout
  \/ PauseDelay
  \/ \E c \in {"threads"} : Calling /\ Quiet /\ Request(c)
  \/ \E rseq \in SentSeqs : \E body \in Bodies(rseq) : Respond(rseq, TRUE, body)

SpecRoute == InitTcp /\ [][NextRoute]_vars

\* --------------------------------------- operations in every session state
\* continue, pause and the steps are called at any point of the start protocol
NextOps ==
  \/ NextStart
  \/ \E kind \in OpKinds : OpCall(kind)
  \/ OpRequestDone
  \/ OpRequestRejected
  \/ PauseTimeout
  \/ \E rseq \in SentSeqs : \E body \in Bodies(rseq) : Respond(rseq, TRUE, body)

SpecOps == InitStdio /\ [][NextOps]_vars

\* ---------------------------------- operations whose request the adapter refuses
\* a tracepoint fills the trace buffer; then continue, pause or a step is called
\* when no handler is in progress, and its request is answered success: false
\* or times out
NextFail ==
  \/ NextStart
  \/ AfterSetBreakpoints
  \/ \E req \in TraceInputs : bpCalls = 0 /\ SetBreakpoint(req)
  \/ SetBreakpointsDone
  \/ \E line \in {5} : startPc = "done" /\ bpPc = "done" /\ opPc = "idle" /\ Stopped(line, MaxStops)
  \/ \E n \in DOMAIN handlers : HandlerStackTrace(n)
  \/ \E n \in DOMAIN handlers : HandlerScopes(n)
  \/ \E n \in DOMAIN handlers : HandlerVariables(n)
  \/ AutoContinue
  \/ \E rseq \in SentSeqs : \E body \in Bodies(rseq) :
       Faithful(rseq, body) /\ Respond(rseq, TRUE, body)
  \/ \E kind \in OpKinds \cup {CollectKind} :
       startPc = "done" /\ bpPc = "done" /\ Quiet /\ OpCall(kind)
  \/ OpRequestDone
  \/ OpRequestRejected
  \/ PauseTimeout
  \/ \E rseq \in SentSeqs :
       /\ rseq \in DOMAIN pendingRequests
       /\ pendingRequests[rseq].owner = "op"
       /\ Respond(rseq, FALSE, <<>>)
  \/ \E seq \in DOMAIN pendingRequests :
       pendingRequests[seq].owner = "op" /\ RequestTimeout(seq)

SpecFail == InitStdio /\ [][NextFail]_vars

\* ------------------------------------------------- the trace buffer at its cap
\* a tracepoint at line 5 and ordinary stops at line 6; continue with
\* collectHits is called before the first stop, its wait does not time out, the
\* adapter answers a continue request before it reports the next stop and
\* names a local scope in every scopes reply, and the debuggee stops once more
\* than the buffer holds
NextRing ==
  \/ NextStart
  \/ AfterSetBreakpoints
  \/ \E req \in TraceInputs : bpCalls = 0 /\ SetBreakpoint(req)
  \/ SetBreakpointsDone
  \/ \E line \in Lines :
       /\ startPc = "done" /\ bpPc = "done" /\ opCalls > 0
       /\ line = 6 => opPc = "waitPause"
       /\ \A q \in DOMAIN pendingRequests : pendingRequests[q].command # "continue"
       /\ Stopped(line, MAX_TRACES_IN_MEMORY + 1)
  \/ \E n \in DOMAIN handlers : HandlerStackTrace(n)
  \/ \E n \in DOMAIN handlers : HandlerScopes(n)
  \/ \E n \in DOMAIN handlers : HandlerVariables(n)
  \/ AutoContinue
  \/ startPc = "done" /\ bpPc = "done" /\ handlers = <<>> /\ OpCall(CollectKind)
  \/ OpRequestDone
  \/ PauseDelay
  \/ \E rseq \in SentSeqs : \E body \in Bodies(rseq) :
       /\ Faithful(rseq, body)
       /\ RequestOf(rseq).command = "scopes" => body
       /\ Respond(rseq, TRUE, body)

SpecRing == InitStdio /\ [][NextRing]_vars

\* ------------------------------------- client methods behind a capability
NextCaps ==
  \/ NextStart
  \/ \E c \in CapCallers : startPc = "done" /\ CapRequest(c)
  \/ \E rseq \in SentSeqs : \E body \in Bodies(rseq) : Respond(rseq, TRUE, body)

SpecCaps == InitStdio /\ [][NextCaps]_vars

\* ------------------------------------------------------- the codec round trip
SeqsOf(S, n) == UNION {[1..k -> S] : k \in 0..n}

\* the messages: every sequence of body characters up to MaxBody
Messages == SeqsOf(BodyChars, MaxBody)

\* one message is encoded, appended to an empty parser in some chunks, and
\* tryParse is called once everything has been appended
InitCodec ==
  /\ InitSession /\ connectionMode = "stdio" /\ ~holdLaunch
  /\ ParserIdle
  /\ \E m \in Messages : written = <<m>> /\ stream = ToBytes(EncodeMessage(m))

NextCodec ==
  \/ \E k \in 1..Len(stream) : ParserAppend(k)
  \/ lastParse = "idle" /\ readPos = Len(stream) /\ ParserTryParse

SpecCodec == InitCodec /\ [][NextCodec]_vars

\* ------------------------------------------------------------ partial reads
\* header blocks without a valid Content-Length, each ended by a blank line
Garbage == {<<"g", CR, LF, CR, LF>>, <<"K", ":", " ", "g", CR, LF, CR, LF>>}

\* the messages of at most one character
ShortMessages == {m \in Messages : Len(m) <= 1}

RECURSIVE EncodeAll(_)
EncodeAll(ms) ==
  IF ms = <<>> THEN <<>> ELSE ToBytes(EncodeMessage(Head(ms))) \o EncodeAll(Tail(ms))

\* the adapter writes up to MaxMessages short messages, after a malformed header
\* block or without one; the stream arrives in data events of any sizes
InitChunks ==
  /\ InitSession /\ connectionMode = "stdio" /\ ~holdLaunch
  /\ ParserIdle
  /\ \E ms \in SeqsOf(ShortMessages, MaxMessages), garbage \in Garbage \cup {<<>>} :
       /\ ms # <<>>
       /\ written = ms
       /\ stream = garbage \o EncodeAll(ms)

NextChunks == \E k \in 1..Len(stream) : HandleData(k)

SpecChunks == InitChunks /\ [][NextChunks]_vars

\* ===================================================================== claims
\* the transitions of the session state machine (CLAUDE.md)
Listed ==
  {<<"created", "initializing">>, <<"initializing", "ready">>, <<"ready", "running">>,
   <<"running", "paused">>, <<"paused", "running">>}
    \cup (States \X {"terminated", "error"})

\* C1: every change of the session's state is one of the listed transitions;
\* a call or event that would cause another one leaves the state unchanged.
C1_OnlyListedTransitions == [][state' # state => <<state, state'>> \in Listed]_vars

\* C2: a step or continue-and-wait called on a paused session that succeeds
\* returns a stop context other than the one cached when the call was made.
C2_ReturnsNewStop ==
  (opPc = "done" /\ opKind \in WaitKinds /\ opResult.success /\ ctxAtCall.state = "paused"
     /\ ctxAtCall.ctx.set)
    => opResult.stoppedAt # ctxAtCall.ctx.stackFrame

\* C3: with a tracepoint of maxDumps = 3 at the line the debuggee hits, the
\* trace buffer holds at most the TracePoints of hits 1, 2, 3, none of the
\* first three hits is surfaced as stopped, and the fourth hit is.
C3_ThreeDumpsThenPause ==
  /\ Len(collectedTraces) <= 3
  /\ \A i \in DOMAIN collectedTraces : collectedTraces[i].hitNumber = i
  /\ \A n \in 1..3 : Note("stopped", n) \notin emitted
  /\ (4 \in DOMAIN handlers /\ handlers[4].pc = "done") => Note("stopped", 4) \in emitted

\* the user-supplied fields of a stored breakpoint
UserFields(bp) ==
  <<bp.condition, bp.hitCondition, bp.logMessage, bp.trace, bp.dumpFile, bp.maxDumps,
    bp.dumpCount>>

\* C4: a step that changes the breakpoint table without a setBreakpoint or
\* removeBreakpoint call (the adapter's reply being applied) keeps every stored
\* breakpoint and its user-supplied fields.
C4_ReplyKeepsUserFields ==
  [][(breakpoints' # breakpoints /\ bpCalls' = bpCalls) =>
       \A e \in DOMAIN breakpoints : \A i \in DOMAIN breakpoints[e].bps :
         /\ i \in DOMAIN breakpoints'[e].bps
         /\ UserFields(breakpoints'[e].bps[i]) = UserFields(breakpoints[e].bps[i])]_vars

\* C5: the breakpoint table never holds two breakpoints with the same file
\* and line.
C5_OnePerFileLine ==
  \A i, j \in DOMAIN listBreakpoints :
    (listBreakpoints[i].file = listBreakpoints[j].file
       /\ listBreakpoints[i].line = listBreakpoints[j].line) => i = j

\* C6: once setBreakpoint(A, 5) and then setBreakpoint(A, 5, "x>0") have both
\* returned (before startDebugging, or after it against an adapter that verified
\* every breakpoint where it was requested), listBreakpoints has exactly one
\* breakpoint at A:5 and its condition is "x>0".
C6_SecondSetUpdates ==
  (/\ bpPc = "done"
   /\ ~fault
   /\ Len(bpLog) = 2
   /\ bpLog[1].kind = "set" /\ bpLog[1].req = BpReq("A", 5, None, None)
   /\ bpLog[2].kind = "set" /\ bpLog[2].req = BpReq("A", 5, "x>0", ">2")
   /\ bpLog[1].state = bpLog[2].state
   /\ bpLog[1].state = "created" => startPc = "idle")
    => /\ Cardinality({i \in DOMAIN listBreakpoints :
                        listBreakpoints[i].file = "A" /\ listBreakpoints[i].line = 5}) = 1
       /\ \A i \in DOMAIN listBreakpoints :
            (listBreakpoints[i].file = "A" /\ listBreakpoints[i].line = 5)
              => listBreakpoints[i].condition = "x>0"

\* the setBreakpoints requests sent before configurationDone
BeforeConfigurationDone ==
  {k \in DOMAIN sent :
     /\ sent[k].command = "setBreakpoints"
     /\ \A c \in DOMAIN sent : sent[c].command = "configurationDone" => k < c}

\* the initialized event has reached waitForInitialized
InitializedReceived == initTimer = "cleared"

\* startDebugging is past its replay of the breakpoints
ReplayDone == Sent("configurationDone") \/ startPc = "waitLaunch" \/ startResult.success

\* C7: a setBreakpoint call in state created sends nothing and returns the
\* breakpoint unverified; every setBreakpoints request is sent after the
\* initialized event; and once startDebugging is past its replay, every
\* breakpoint queued before the start was sent in a setBreakpoints request of its
\* file, with its condition and hitCondition, before configurationDone.
C7_QueuedThenReplayed ==
  /\ state = "created" => sent = <<>>
  /\ (bpPc = "done" /\ bpCall.kind = "set" /\ bpLog[Len(bpLog)].state = "created")
       => /\ bpResult.success
          /\ bpResult.breakpoint.line = bpCall.line
          /\ ~bpResult.breakpoint.verified
          /\ bpResult.breakpoint.condition = bpLog[Len(bpLog)].req.condition
  /\ \A k \in DOMAIN sent : sent[k].command = "setBreakpoints" => InitializedReceived
  /\ ReplayDone =>
       \A e \in DOMAIN queued : \A i \in DOMAIN queued[e].bps :
         \E k \in BeforeConfigurationDone :
           /\ sent[k].arg[1] = queued[e].file
           /\ \E j \in DOMAIN sent[k].arg[2] :
                /\ sent[k].arg[2][j].line = queued[e].bps[i].line
                /\ sent[k].arg[2][j].condition = queued[e].bps[i].condition
                /\ sent[k].arg[2][j].hitCondition = queued[e].bps[i].hitCondition

\* two files were queued, one breakpoint with a condition and a hitCondition,
\* and configurationDone has been sent
C7_Witness ==
  /\ Sent("configurationDone")
  /\ Len(queued) = 2
  /\ \E e \in DOMAIN queued : \E i \in DOMAIN queued[e].bps :
       queued[e].bps[i].condition = "x>0" /\ queued[e].bps[i].hitCondition = ">2"

\* one step of startDebugging or of an adapter that answers it
StartStep ==
  \/ ClientStart
  \/ InitializeDone
  \/ AfterInitialized
  \/ AfterConfigurationDone
  \/ AfterWaitForLaunch
  \/ WaitForLaunchTimeout
  \/ LaunchResponse(TRUE)
  \/ startPc = "waitInitialized" /\ Initialized
  \/ \E rseq \in DOMAIN pendingRequests : \E body \in Bodies(rseq) :
       pendingRequests[rseq].owner = "start" /\ Respond(rseq, TRUE, body)

\* the adapter answered everything, sent initialized after the launch request,
\* and nobody terminated the session
Orderly == ~fault /\ ~earlyInit /\ termPc = "idle"

C9_WaitForLaunchReturns ==
  wflTimer = "fired" => ~(startPc = "waitLaunch" /\ awaits["start"].st = "pending")

\* the seq of the request a caller sent
SeqOf(c) == (CHOOSE k \in DOMAIN sent : sent[k].command = c /\ sent[k].arg = <<>>
                                          /\ \A j \in DOMAIN sent : sent[j].command = c => k <= j)

\* C10: a caller's request is resolved with the response whose request_seq is
\* the seq of that request.
C10_MatchedBySeq ==
  \A c \in Callers :
    awaits[c].st = "resolved" => awaits[c].body.request_seq = sent[SeqOf(c)].seq

\* three requests were outstanding and the two sent last were answered first
C10_Witness ==
  \E c \in Callers :
    /\ awaits[c].st = "pending"
    /\ \A d \in Callers \ {c} :
         /\ awaits[d].st = "resolved"
         /\ Sent(d)
         /\ sent[SeqOf(c)].seq < sent[SeqOf(d)].seq

\* C11: a caller's request has a record in the pending table exactly while its
\* promise is pending, and a settled promise is never settled again.
C11_SettledOnceAndRemoved ==
  /\ [](\A c \in Callers :
         awaits[c].st # "pending" =>
           ~\E q \in DOMAIN pendingRequests : pendingRequests[q].owner = c)
  /\ [][\A c \in Callers :
          awaits[c].st \in {"resolved", "rejected"} => awaits'[c] = awaits[c]]_vars

\* C12: the step in which the adapter process exits or the primary stream
\* closes leaves no request outstanding on the primary or on the child
\* connection, rejects every caller that was waiting, and emits adapterExit.
C12_ExitRejectsAll ==
  [][((procAlive /\ ~procAlive') \/ (socketOpen /\ ~socketOpen')) =>
       /\ pendingRequests' = <<>>
       /\ \A q \in DOMAIN childPending' : childPending'[q].owner \notin Callers
       /\ \A c \in Callers : awaits[c].st = "pending" => awaits'[c].st = "rejected"
       /\ Note("adapterExit", 0) \in emitted']_vars

\* C20: the step in which terminateSession returns for an existing session
\* leaves the session out of the table, the adapter process killed and no
\* request pending on the client, and returns success; for an unknown id it
\* returns success=false and changes nothing else.
C20_TerminateSessionCleansUp ==
  [][/\ (termPc = "disconnect" /\ termPc' = "done") =>
          /\ termResult'.success
          /\ ~inTable'
          /\ Spawned => killed'
          /\ pendingRequests' = <<>>
          /\ childPending' = <<>>
          /\ \A c \in Callers : awaits'[c].st # "pending"
     /\ (termPc = "idle" /\ termPc' = "done") =>
          /\ ~termResult'.success
          /\ UNCHANGED <<sessVars, bpVars, reqVars, awaits, procVars>>]_vars

\* the methods of the client that choose their connection
RoutedCommands ==
  {"threads", "stackTrace", "scopes", "variables", "evaluate", "continue", "next", "stepIn",
   "stepOut", "pause"}

\* this step writes one request, of this command, to the child connection
ChildWrite(command) ==
  /\ Len(childSent') = Len(childSent) + 1
  /\ childSent'[Len(childSent')].command = command

C13_ExitLeavesTerminated ==
  (/\ connectionMode = "stdio"
   /\ exitInTable
   /\ ~procAlive
   /\ awaits["start"].st \notin {"resolved", "rejected"})
    => /\ state = "terminated"
       /\ Note("sessionTerminated", 0) \in emitted

\* C14: once a session has been terminated and every cleanup timer armed for
\* it has fired, the session is no longer in the table.
C14_RemovedAfterGrace ==
  (Note("sessionTerminated", 0) \in emitted /\ graceTimers = 0) => ~inTable

\* the step kinds
StepKinds == {"stepIn", "stepOver", "stepOut"}

\* C16: a continue, pause or step call made while the session is created,
\* initializing, terminated or error writes no request and is rejected.
C16_InactiveSendsNothing ==
  [][(opCalls' # opCalls /\ state \notin ActiveStates) =>
       /\ sent' = sent
       /\ childSent' = childSent
       /\ awaits'["op"].st = "rejected"]_vars

\* C17: a step called while the session is running returns at once with
\* success=false and state running, writes no request and leaves the state.
C17_StepWhileRunningRejected ==
  [][(opCalls' # opCalls /\ opKind' \in StepKinds /\ state = "running") =>
       /\ sent' = sent
       /\ childSent' = childSent
       /\ state' = state
       /\ opPc' = "done"
       /\ ~opResult'.success
       /\ opResult'.state = "running"]_vars

\* C19: no call of setBreakpoint or removeBreakpoint ends by throwing.
C19_NeverThrows == bpPc # "thrown"


\* C18: when the request of continue, pause or a step is answered success: false
\* or times out, and no stopped event arrived during the call, the operation
\* returns success = false with the state the session had before the call, and
\* the session is still in the table with its breakpoints and its traces as
\* they were before the call.
C18_FailedRequestChangesNothing ==
  [][(opPc = "request" /\ awaits["op"].st = "rejected" /\ opPc' = "done"
        /\ Len(handlers) = ctxAtCall.stops)
       => /\ ~opResult'.success
          /\ opResult'.state = ctxAtCall.state
          /\ inTable'
          /\ breakpoints' = ctxAtCall.breakpoints
          /\ collectedTraces' = ctxAtCall.traces]_vars

\* the maxDumps of the last setBreakpoint call for (file, line), NoNum if unset
UserMaxDumps(file, line) ==
  LET calls == {i \in DOMAIN bpLog : /\ bpLog[i].kind = "set"
                                      /\ bpLog[i].req.file = file
                                      /\ bpLog[i].req.line = line}
  IN IF calls = {} THEN NoNum
     ELSE bpLog[CHOOSE i \in calls : \A j \in calls : j <= i].req.maxDumps

\* the step in which the stopped handler of stop n reaches its tracepoint branch
\* for a registered tracepoint with a stored breakpoint at the top frame
TracepointStep(n) ==
  /\ handlers[n].pc \in {"scopes", "variables"}
  /\ handlers[n].st = "resolved"
  /\ handlers[n].pc = "scopes" => ~handlers[n].body
  /\ handlers'[n].pc = "done"
  /\ <<handlers[n].frame.file, handlers[n].frame.line>> \in dumpBreakpoints
  /\ FindLine(BpGet(handlers[n].frame.file), handlers[n].frame.line) # 0

\* the dump count of the breakpoint at the top frame of stop n after the step
DumpCountAfter(n) ==
  breakpoints'[BpIndex(handlers[n].frame.file)]
    .bps[FindLine(BpGet(handlers[n].frame.file), handlers[n].frame.line)].dumpCount

\* C21: a tracepoint hit whose dump count after the increment is below the
\* maxDumps the user set, or whose maxDumps is unset, appends one TracePoint,
\* schedules one continue, emits no stopped and leaves the state; a hit whose
\* dump count has reached maxDumps pauses the session and emits stopped.
C21_TracepointHit ==
  [][\A n \in DOMAIN handlers :
       TracepointStep(n) =>
         IF \/ UserMaxDumps(handlers[n].frame.file, handlers[n].frame.line) = NoNum
            \/ DumpCountAfter(n) < UserMaxDumps(handlers[n].frame.file, handlers[n].frame.line)
           THEN /\ Len(collectedTraces') = Len(collectedTraces) + 1
                /\ autoPending' = autoPending + 1
                /\ Note("stopped", n) \notin emitted'
                /\ state' = state
           ELSE /\ state' = "paused"
                /\ Note("stopped", n) \in emitted'
                /\ autoPending' = autoPending]_vars

\* C22: the trace buffer never holds more than MAX_TRACES_IN_MEMORY traces, and
\* every append to it keeps the most recent traces in order, dropping the oldest
\* one when the buffer is at the cap.
C22_BoundedRing ==
  /\ [](Len(collectedTraces) <= MAX_TRACES_IN_MEMORY)
  /\ [][(collectedTraces' # collectedTraces /\ collectedTraces' # <<>>) =>
          LET t == collectedTraces'[Len(collectedTraces')]
          IN collectedTraces' = IF Len(collectedTraces) >= MAX_TRACES_IN_MEMORY
                                  THEN Append(Tail(collectedTraces), t)
                                  ELSE Append(collectedTraces, t)]_vars

\* C23: when the wait of a step or of continue with waitForBreakpoint times out
\* and since the call no stopped event arrived and no stop context was cached,
\* the call resolves with success and returns no stop context: no stoppedAt
\* and no variables.
C23_TimeoutReturnsNoContext ==
  [][(/\ opPc = "waitPause" /\ pauseTimer = "armed"
      /\ opPc' = "done" /\ pauseTimer' = "none"
      /\ opKind \in WaitKinds
      /\ Len(handlers) = ctxAtCall.stops
      /\ lastStopContext = ctxAtCall.ctx)
       => /\ opResult'.success
          /\ opResult'.stoppedAt = 0
          /\ opResult'.variables = 0]_vars

\* the capability that advertises the request of a client method
Advertised(c) ==
  CASE c = "configurationDone" -> capabilities.supportsConfigurationDoneRequest
    [] c = "setFunctionBreakpoints" -> capabilities.supportsFunctionBreakpoints
    [] c = "terminate" -> capabilities.supportsTerminateRequest
    [] c = "setExceptionBreakpoints" -> capabilities.exceptionBreakpointFilters

\* C24: a configurationDone, setFunctionBreakpoints, terminate or
\* setExceptionBreakpoints request is written only when the capabilities
\* advertise it, and a call of one of these methods that is not advertised
\* resolves at once.
C24_UnsupportedIsNoOp ==
  [][/\ \A c \in CapCallers \cup {"configurationDone"} :
          (Len(sent') > Len(sent) /\ sent'[Len(sent')].command = c) => Advertised(c)
     /\ \A c \in CapCallers :
          (awaits[c].st = "none" /\ awaits'[c].st # "none" /\ ~Advertised(c))
            => awaits'[c].st = "resolved"]_vars

\* the position of the blank line that ends the header of the encoded stream
HeaderEnd == IndexOf(stream, <<CR, LF, CR, LF>>)

\* C25: tryParse on a parser that holds encodeMessage(m) returns m, consumes
\* the whole input and leaves the buffer empty, and the Content-Length of the
\* encoding is the number of UTF-8 bytes of the JSON body.
C25_RoundTrip ==
  /\ lastParse # "idle" =>
       /\ lastParse = "message"
       /\ received = written
       /\ buffer = <<>>
  /\ ParseInt(ContentLength(SubSeq(stream, 1, HeaderEnd - 1)).value)
       = Len(stream) - (HeaderEnd + 3)
  /\ Len(stream) - (HeaderEnd + 3) = Len(ToBytes(JsonStringify(written[1])))

\* a message with a multi-byte character has been parsed back
C25_Witness ==
  /\ lastParse = "message"
  /\ \E i \in DOMAIN written[1] : written[1][i] \in {"U+E9", "U+20AC"}

\* what one append of the whole stream and one parseAll return
WholeStream ==
  LET r == ParseAll(stream) IN IF r.result = "throw" THEN <<>> ELSE r.messages

\* C26: once every byte of the stream has arrived, the messages delivered over
\* the data events are those that one append of the whole stream and one
\* parseAll return.
C26_ChunksAgree == readPos = Len(stream) => received = WholeStream

\* C27: when a stream that begins with a header block without a valid
\* Content-Length, followed by a complete message, arrives in one data event,
\* that message is among those returned, or tryParse throws.
C27_Resynchronizes ==
  [][(/\ readPos = 0 /\ readPos' = Len(stream)
      /\ TryParse(stream).result = "null" /\ TryParse(stream).buffer # stream
      /\ TryParse(TryParse(stream).buffer).result = "message")
       => \/ \E i \in DOMAIN received' : received'[i] = written[1]
          \/ lastParse' = "throw"]_vars

\* ------------------------------------------------ the order of startDebugging
\* startDebugging with breakpoints queued before it, against an adapter that
\* may fail the connection, reject a request or never send initialized
NextOrder ==
  \/ NextStart
  \/ AfterSetBreakpoints
  \/ \E req \in BpInputs : startPc = "idle" /\ SetBreakpoint(req)
  \/ \E line \in Lines : startPc = "idle" /\ RemoveBreakpoint("A", line)
  \/ ClientStartFails
  \/ StartAwaitRejected
  \/ InitializedTimeout
  \/ \E rseq \in SentSeqs, ok \in BOOLEAN :
       \E body \in Bodies(rseq) : Respond(rseq, ok, body)

SpecOrder == Init /\ [][NextOrder]_vars

\* the commands written to the adapter, in order
Commands(log) == [i \in 1..Len(log) |-> log[i].command]

\* n setBreakpoints commands
Replays(n) == [i \in 1..n |-> "setBreakpoints"]

\* the entries of the breakpoint table that hold breakpoints
RECURSIVE NonEmpty(_)
NonEmpty(table) ==
  IF table = <<>> THEN <<>>
  ELSE IF table[1].bps = <<>> THEN NonEmpty(Tail(table))
  ELSE <<table[1]>> \o NonEmpty(Tail(table))

\* the step on which startDebugging returns success
Succeeds == startPc # "done" /\ startPc' = "done" /\ startResult'.success

\* the states startDebugging sets, in the order of its code
StateOrder ==
  /\ (startPc = "idle" /\ startPc' # "idle") => state' = "initializing"
  /\ (startPc = "waitInitialized" /\ startPc' \notin {"waitInitialized", "done"})
       => state' = "ready"
  /\ (startPc' \in {"setBreakpoints", "configurationDone"} /\ startPc' # startPc)
       => startPc \in {"waitInitialized", "setBreakpoints"}
  /\ (startPc' = "waitLaunch" /\ startPc # "waitLaunch")
       => startPc \in {"waitInitialized", "setBreakpoints", "configurationDone"}
  /\ Succeeds => startPc = "waitLaunch" /\ state' = "running" /\ startResult'.state = "running"

\* client start, initialize or the wait for initialized fails
FailureIsError ==
  (startPc \in {"start", "initialize", "waitInitialized"} /\ startPc' = "done")
    => state' = "error" /\ ~startResult'.success /\ startResult'.state = "error"

\* no request of the log is still waiting for its response
Answered(command) ==
  \A i \in DOMAIN sent' : sent'[i].command = command => sent'[i].seq \notin DOMAIN pendingRequests'

\* C28 as stated: a successful startDebugging sets initializing, ready, running
\* in that order, has written initialize, launch, one setBreakpoints per file
\* with queued breakpoints and configurationDone, in that order, returns
\* running only after the configurationDone response, and a failure of client
\* start, initialize or the wait for initialized returns error, success=false.
C28_StartOrder ==
  [][/\ StateOrder
     /\ FailureIsError
     /\ Succeeds =>
          /\ Commands(sent') = <<"initialize", "launch">> \o Replays(Len(NonEmpty(queued)))
                                 \o <<"configurationDone">>
          /\ Answered("configurationDone")]_vars

\* C28 amended: the same, where there is one setBreakpoints per entry of the
\* breakpoint table (an entry emptied by removeBreakpoint included), in the
\* order of the table, and configurationDone is written, and its response
\* awaited, exactly when the adapter advertises supportsConfigurationDoneRequest.
C28_StartOrderAsBuilt ==
  [][/\ StateOrder
     /\ FailureIsError
     /\ Succeeds =>
          /\ Commands(sent') = <<"initialize", "launch">> \o Replays(Len(queued))
                 \o (IF capabilities.supportsConfigurationDoneRequest
                       THEN <<"configurationDone">> ELSE <<>>)
          /\ \A e \in DOMAIN queued : sent'[2 + e].arg[1] = queued[e].file
          /\ Answered("configurationDone")
          /\ Answered("initialize")]_vars

\* startDebugging has succeeded with two files queued and configurationDone sent
C28_Witness ==
  /\ startPc = "done"
  /\ startResult.success
  /\ state = "running"
  /\ Len(queued) = 2
  /\ Sent("configurationDone")

\* ------------------------------------------- the current frame of a stop
\* the stopped notification of stop n is emitted on this step
Surfaces(n) == Note("stopped", n) \in emitted' /\ Note("stopped", n) \notin emitted

\* C29: when the stopped notification of a stopped event is emitted and the
\* session becomes paused, currentFrameId is the id of the top frame of that
\* stop, also when the handler's stackTrace, scopes or variables request
\* failed or returned no frames.
C29_FrameOfThisStop ==
  [][\A n \in DOMAIN handlers' :
       Surfaces(n) => state' = "paused" /\ currentFrameId' = n]_vars

\* ------------------------------------------- the deferred auto-continue
\* the stopped handler of stop n schedules the auto-continue on this step
Schedules(n) ==
  /\ handlers[n].pc # "done"
  /\ handlers'[n].pc = "done"
  /\ autoPending' = autoPending + 1

\* a continue request is written to the adapter on this step
WritesContinue == Len(sent') = Len(sent) + 1 /\ sent'[Len(sent')].command = "continue"

\* the trace of stop n is in the buffer
TraceOf(traces, n) == \E i \in DOMAIN traces : traces[i].stop = n

\* C30: the stopped handler of a tracepoint hit writes no continue itself: on
\* the step that schedules it the dump count is incremented, lastStopContext
\* is cached and the TracePoint is appended, and nothing is written; the
\* continue is written later, when every handler has finished and the trace
\* of the last stop is in the buffer; and a new stopped event is processed
\* only when the traces of all earlier hits are in the buffer.
C30_ContinueIsDeferred ==
  [][/\ \A n \in DOMAIN handlers :
          Schedules(n) =>
            /\ sent' = sent
            /\ lastStopContext'.set /\ lastStopContext'.stackFrame = handlers[n].frame.id
            /\ collectedTraces'[Len(collectedTraces')].stop = n
            /\ TracepointStep(n) =>
                 collectedTraces'[Len(collectedTraces')].hitNumber = DumpCountAfter(n)
     /\ WritesContinue =>
          /\ autoPending > 0 /\ autoPending' = autoPending - 1
          /\ handlers # <<>>
          /\ \A m \in DOMAIN handlers : handlers[m].pc = "done"
          /\ TraceOf(collectedTraces, Len(handlers))
          /\ lastStopContext.stackFrame = handlers[Len(handlers)].frame.id
     /\ Len(handlers') > Len(handlers) =>
          \A m \in DOMAIN handlers :
            handlers[m].pc = "done" /\ TraceOf(collectedTraces, m)]_vars

\* a second hit is being processed after the deferred continue of the first
C30_Witness ==
  /\ Len(handlers) >= 2
  /\ handlers[2].pc = "done"
  /\ Len(collectedTraces) >= 2
  /\ autoPending = 0
  /\ \E i \in DOMAIN sent : sent[i].command = "continue"

\* ------------------------------------------- the handshake of a child session
\* the handshake request was written and is no longer waiting for its response
ChildSettled(command) ==
  \E i \in DOMAIN childSent :
    childSent[i].command = command /\ childSent[i].seq \notin DOMAIN childPending

\* a response to the reverse request is written to the primary connection
Replies(ok) ==
  /\ Len(sent') = Len(sent) + 1
  /\ sent'[Len(sent')].command = "response"
  /\ sent'[Len(sent')].arg[1] = ok

\* the requests of the handshake on the child connection, in order
RECURSIVE HandshakeOf(_)
HandshakeOf(log) ==
  IF log = <<>> THEN <<>>
  ELSE IF log[1].command \in {"initialize", "attach", "configurationDone"}
    THEN <<log[1].command>> \o HandshakeOf(Tail(log))
    ELSE HandshakeOf(Tail(log))

\* C31: for a startDebugging reverse request with a target id in tcp mode the
\* client writes initialize, attach with that id and configurationDone on the
\* new connection in this order, initialize only once connected, attach only
\* after the initialize response, configurationDone only after attach was
\* answered, failed or timed out; it replies success only after the
\* configurationDone response, and replies success=false when initialize or
\* configurationDone fails.
C31_HandshakeInOrder ==
  /\ [](HandshakeOf(childSent) \in {<<>>, <<"initialize">>, <<"initialize", "attach">>,
                                      <<"initialize", "attach", "configurationDone">>})
  /\ [][/\ ChildWrite("initialize") => childPc = "connecting" /\ connectionMode = "tcp"
        /\ ChildWrite("attach") =>
             /\ awaits["child"].st = "resolved" /\ ChildSettled("initialize")
             /\ childSent'[Len(childSent')].arg = <<TRUE>>
        /\ ChildWrite("configurationDone") =>
             /\ awaits["child"].st \in {"resolved", "rejected"} /\ ChildSettled("attach")
        /\ Replies(TRUE) =>
             /\ childPc = "configurationDone" /\ awaits["child"].st = "resolved"
             /\ ChildSettled("configurationDone")
        /\ (childPc \in {"initialize", "configurationDone"} /\ childPc' # childPc
              /\ awaits["child"].st = "rejected" /\ writable)
             => Replies(FALSE) /\ childPc' = "failed"]_vars

\* the handshake completed although the attach request failed
C31_Witness ==
  /\ childPc = "done"
  /\ HandshakeOf(childSent) = <<"initialize", "attach", "configurationDone">>
  /\ \E i \in DOMAIN sent : sent[i].command = "response" /\ sent[i].arg[1]
  /\ fault

\* C32: a child connection is the active child session only once its handshake
\* has completed: no thread- or frame-scoped request is written to a child
\* whose handshake is in progress or has failed, and after a failed handshake
\* the client has no active child session.
C32_ActiveAfterHandshake ==
  /\ [](activeChildSession => childPc = "done")
  /\ [][\A c \in RoutedCommands : ChildWrite(c) => childPc = "done"]_vars

\* C33: once the primary connection has closed, the adapter has exited or
\* disconnect has completed, the client has no active child session and a
\* later thread- or frame-scoped call writes nothing to a child connection;
\* the close of a child connection leaves the primary connection, its pending
\* requests and its connected flag unchanged.
C33_PrimaryCloseTearsDown ==
  /\ [][(isConnected /\ ~isConnected') => ~activeChildSession']_vars
  /\ [][~isConnected => \A c \in RoutedCommands : ~ChildWrite(c)]_vars
  /\ [][(activeChildSession /\ ~activeChildSession')
         => UNCHANGED <<isConnected, pendingRequests, socketOpen, procAlive>>]_vars

\* ------------------------------------------------------- reverse requests
\* the adapter sends reverse requests on the primary and on the child connection
NextReverse ==
  \/ NextStart
  \/ NextChildSession
  \/ ChildConnectFails
  \/ ChildHandshakeRejected
  \/ \E seq \in DOMAIN childPending :
       childPending[seq].owner = "child" /\ ChildRespond(seq, FALSE, <<>>)
  \/ \E seq \in DOMAIN childPending :
       childPending[seq].owner = "child" /\ ChildTimeout(seq)
  \/ \E conn \in {"primary", "child"}, command \in {"runInTerminal", "other"} :
       startPc = "done" /\ ReverseRequest(conn, command)
  \/ \E rseq \in SentSeqs : \E body \in Bodies(rseq) : Respond(rseq, TRUE, body)

SpecReverse == Init /\ [][NextReverse]_vars

\* the handler of the reverse request has run to its end
Handled(r) ==
  r.command = "startDebugging" => childPc \in {"failed", "acknowledged", "done"}

\* a reverse request arrives on this step
Arrives == Len(reverseRequests') = Len(reverseRequests) + 1

\* handleStartDebugging reaches one of its sendReverseResponse calls on this step
StartAnswered ==
  /\ childPc \notin {"failed", "acknowledged", "done"}
  /\ childPc' \in {"failed", "acknowledged", "done"}

\* this step writes one response, to request r, with this success flag
RespondsTo(r, ok) ==
  /\ Len(sent') = Len(sent) + 1
  /\ sent'[Len(sent')].command = "response"
  /\ sent'[Len(sent')].arg = <<ok, r.seq, r.command>>

\* the responses the client has written
Responses == {k \in DOMAIN sent : sent[k].command = "response"}

C39_AnsweredOnSameConnection ==
  [][(Len(reverseRequests') > Len(reverseRequests)
       /\ reverseRequests'[Len(reverseRequests')].conn = "child")
      => /\ sent' = sent
         /\ Len(childSent') = Len(childSent) + 1
         /\ childSent'[Len(childSent')].command = "response"
         /\ childSent'[Len(childSent')].seq = childSeq
         /\ childSent'[Len(childSent')].arg[2] = reverseRequests'[Len(reverseRequests')].seq]_vars

\* ------------------------------------------------- a body that is not JSON
\* a frame with a correct Content-Length whose body is not a JSON text
BadFrame == ToBytes(<<"K", ":", " ", "1", CR, LF, CR, LF, "a">>)

\* the adapter writes up to MaxMessages short messages and then the bad frame
InitBadJson ==
  /\ InitSession /\ connectionMode = "stdio" /\ ~holdLaunch
  /\ ParserIdle
  /\ \E ms \in SeqsOf(ShortMessages, MaxMessages) :
       /\ written = ms
       /\ stream = EncodeAll(ms) \o BadFrame

SpecBadJson == InitBadJson /\ [][NextChunks]_vars

\* C35: a body that is not valid JSON does not leave handleData as an
\* exception; once the whole stream has arrived, the messages written before
\* the bad frame have all been dispatched and the session has been told of the
\* fault (an error notification, state error or terminated).
C35_BadJsonReported ==
  /\ lastParse # "throw"
  /\ readPos = Len(stream) =>
       /\ received = written
       /\ state \in {"error", "terminated"}
       /\ \E n \in emitted : n.ev = "error"

\* ------------------------------------------ a stop during startDebugging
\* the debuggee stops (a breakpoint, or stop on entry) once configurationDone
\* has made it run, while startDebugging is suspended in waitForLaunch with
\* the launch response outstanding
\* startDebugging is suspended on a promise that has not settled: events and
\* responses are handled only then, the continuation of a settled await runs first
Suspended == awaits["start"].st = "pending"

NextEntry ==
  \/ NextStart
  \/ \E line \in {5} : Suspended /\ startPc = "waitLaunch" /\ Stopped(line, 1)
  \/ \E n \in DOMAIN handlers : Suspended /\ HandlerStackTrace(n)
  \/ \E n \in DOMAIN handlers : Suspended /\ HandlerScopes(n)
  \/ \E n \in DOMAIN handlers : Suspended /\ HandlerVariables(n)
  \/ WaitForLaunchTimeout
  \/ \E rseq \in SentSeqs : \E body \in Bodies(rseq) :
       Suspended /\ Faithful(rseq, body) /\ Respond(rseq, TRUE, body)

SpecEntry == Init /\ [][NextEntry]_vars

\* C36: when the stopped event of the launch has been fully handled (state
\* paused) before startDebugging ends its wait for the launch response, the
\* return of startDebugging leaves the state paused.
C36_StartKeepsPaused ==
  [][(/\ startPc = "waitLaunch" /\ startPc' = "done"
      /\ state = "paused"
      /\ handlers # <<>> /\ \A n \in DOMAIN handlers : handlers[n].pc = "done")
     => state' = "paused" /\ startResult'.state = "paused"]_vars

\* ------------------------------------------- stopped followed by continued
\* the debuggee stops and resumes on its own; the adapter reports both
NextResume ==
  \/ NextStart
  \/ \E line \in {5} : startPc = "done" /\ Stopped(line, MaxStops)
  \/ handlers # <<>> /\ DebuggeeResumes
  \/ \E n \in DOMAIN handlers : HandlerStackTrace(n)
  \/ \E n \in DOMAIN handlers : HandlerScopes(n)
  \/ \E n \in DOMAIN handlers : HandlerVariables(n)
  \/ \E rseq \in SentSeqs : \E body \in Bodies(rseq) :
       Faithful(rseq, body) /\ Respond(rseq, TRUE, body)

SpecResume == InitStdio /\ [][NextResume]_vars

\* C37: once every stopped handler has finished, the state is that of the
\* most recent of the stopped and continued events the adapter sent: running
\* when the debuggee was last reported continued, paused when last reported
\* stopped.
C37_LastEventWins ==
  (startPc = "done" /\ handlers # <<>> /\ \A n \in DOMAIN handlers : handlers[n].pc = "done")
    => state = IF debuggee.running THEN "running" ELSE "paused"

\* ------------------------------------------------- a tracepoint removed
\* a tracepoint is set and removed again, before or after the start; the
\* debuggee later stops at its line
NextUntrace ==
  \/ NextStart
  \/ AfterSetBreakpoints
  \/ \E req \in TraceInputs : bpCalls = 0 /\ SetBreakpoint(req)
  \/ bpCalls = 1 /\ bpPc = "done" /\ startPc \in {"idle", "done"} /\ RemoveBreakpoint("A", 5)
  \/ SetBreakpointsDone
  \/ \E line \in {5} : startPc = "done" /\ bpPc = "done" /\ Stopped(line, MaxStops)
  \/ \E n \in DOMAIN handlers : HandlerStackTrace(n)
  \/ \E n \in DOMAIN handlers : HandlerScopes(n)
  \/ \E n \in DOMAIN handlers : HandlerVariables(n)
  \/ AutoContinue
  \/ \E rseq \in SentSeqs : \E body \in Bodies(rseq) :
       Faithful(rseq, body) /\ Respond(rseq, TRUE, body)

SpecUntrace == InitStdio /\ [][NextUntrace]_vars

\* removeBreakpoint(file, line) has returned success and was the last call
RemovedAt(file, line) ==
  /\ bpLog # <<>>
  /\ bpLog[Len(bpLog)].kind = "remove"
  /\ bpLog[Len(bpLog)].req.file = file
  /\ bpLog[Len(bpLog)].req.line = line
  /\ bpPc = "done"
  /\ bpResult.success

\* C38: once the tracepoint at a location has been removed, a stop at that
\* location is a normal stop: when its handler finishes, the session is
\* paused and stopped is emitted, no TracePoint is appended and no continue
\* is scheduled.
C38_RemovedTracepointPauses ==
  [][\A n \in DOMAIN handlers :
       (/\ handlers[n].pc # "done" /\ handlers'[n].pc = "done"
        /\ RemovedAt(handlers[n].frame.file, handlers[n].frame.line))
       => /\ Surfaces(n)
          /\ state' = "paused"
          /\ collectedTraces' = collectedTraces
          /\ autoPending' = autoPending]_vars

\* -------------------------------------- initialized right after initialize
\* the adapter sends initialized once, at any point after its initialize
\* response: in the same chunk as that response, before startDebugging has
\* resumed, or later; the 10 s timer fires only when the event has been sent
\* and waitForInitialized is still waiting
NextEarly ==
  \/ StartDebugging
  \/ ClientStart
  \/ InitializeDone
  \/ AfterInitialized
  \/ AfterSetBreakpoints
  \/ AfterConfigurationDone
  \/ AfterWaitForLaunch
  \/ LaunchResponse(TRUE)
  \/ WaitForLaunchTimeout
  \/ \E req \in BpInputs : startPc = "idle" /\ SetBreakpoint(req)
  \/ /\ ~earlyInit /\ initTimer # "cleared"
     /\ \/ startPc = "initialize" /\ awaits["start"].st = "resolved"
        \/ startPc = "waitInitialized"
     /\ Initialized
  \/ earlyInit /\ InitializedTimeout
  \/ StartAwaitRejected
  \/ \E rseq \in SentSeqs : \E body \in Bodies(rseq) : Respond(rseq, TRUE, body)

SpecEarly == Init /\ [][NextEarly]_vars

\* C40: when the adapter sends initialized at any point after its initialize
\* response, the wait of startDebugging sees it: the timer of
\* waitForInitialized never fires and startDebugging ends with success.
C40_InitializedNotMissed ==
  /\ initTimer # "fired"
  /\ startPc = "done" => startResult.success

====
